---- MODULE Spec2Model ----
(***************************************************************************)
(* Visibility-scoring engine of solar-studio (src/utils/visibilityCalculator*)
(* .ts).  The scorers are pure functions; they are modelled as operators   *)
(* and driven by a call/return state machine whose inputs are drawn from   *)
(* bounded sets.                                                           *)
(*                                                                         *)
(* Fixed-point conventions (TLC has integers only):                        *)
(*   fractions (cloudCover, fog, illuminated fraction)   tenths            *)
(*   precipitation                                       mm/h, integer     *)
(*   extinction coefficient                              1/100 per km      *)
(*   surface distances, horizons, visibility limits      metres            *)
(*   Position.lat / Position.lon                         tenths of degree  *)
(*   Position.altitude                                   metres (km*1000)  *)
(*   celestial altitudes                                 whole degrees     *)
(*   magnitude                                           tenths            *)
(*   celestial factors                                   1/900             *)
(*   celestial score                                     1/1080000         *)
(*   surface time factor                                 1/100             *)
(*   contrast                                            1/10000           *)
(*   surface score                                       1/1000000         *)
(* SunCalc and the trigonometry of raDecToAltitude are not computed: the   *)
(* values they return for an (observer, time) are the record `sky`.        *)
(***************************************************************************)
EXTENDS Integers, Sequences, FiniteSets, TLC

VARIABLES
    op,            \* the engine function whose call is in progress, or "idle"
    observerPos,   \* calculateVisibilityScore: observer Position
    targetPos,     \* calculateVisibilityScore: target Position
    currentHour,   \* currentTime.getHours() of the call
    weather,       \* WeatherConditions of the call
    object,        \* CelestialObject | null of the call
    sky,           \* what SunCalc / raDecToAltitude return for (lat, lon, time)
    ratingArg,     \* argument of getWeatherRating / timeFactorToRating
    score,         \* returned score, numerator over scoreDen
    scoreDen,      \* denominator of the returned score
    breakdown,     \* returned VisibilityBreakdown
    rating,        \* returned rating
    atmos,         \* a call of the atmospheric helpers of the surface scorer
    service,       \* a WeatherConditions record handed out by weatherService
    yallop,        \* a call of calculateYallopQ and the result before it
    host,          \* the host running the surface scorer: its time zone and calls
    crescent,      \* the crescent layer: zoneCache, the layer and the tile being drawn
    grid,          \* the visibility grid layer: visibilityCache, the component and its layer
    bulk,          \* weatherService: the bulk weather cache and a call of getAllWeatherFromCache
    tooltip        \* the hover tooltip: its refs, React state, timers and weather requests

engineVars == <<op, observerPos, targetPos, currentHour, weather, object, sky,
                ratingArg, score, scoreDen, breakdown, rating>>

vars == <<engineVars, atmos, service, yallop, host, crescent, grid, bulk, tooltip>>

----------------------------------------------------------------------------
(* Bounds of the model *)

\* largest precipitation rate drawn, mm/h
MaxPrecip == 2
\* largest observer-target arc drawn, in tenths of a degree
MaxArc == 10

----------------------------------------------------------------------------
(* Arithmetic helpers *)

Abs(x) == IF x < 0 THEN -x ELSE x
Min(a, b) == IF a < b THEN a ELSE b
Max(a, b) == IF a > b THEN a ELSE b

\* Math.round of the rational n/d (d > 0): nearest integer, halves upward
MathRound(n, d) == (2 * n + d) \div (2 * d)

RECURSIVE SqrtBisect(_, _, _)
SqrtBisect(n, lo, hi) ==
    IF hi - lo <= 1 THEN lo
    ELSE LET mid == (lo + hi) \div 2
         IN IF mid * mid <= n THEN SqrtBisect(n, mid, hi)
            ELSE SqrtBisect(n, lo, mid)

\* floor of Math.sqrt(n), 0 <= n < 46340^2
MathSqrt(n) == SqrtBisect(n, 0, 46340)

RECURSIVE ExpTaylor(_, _, _, _)
\* sum of the alternating series of e^(-f/1000), terms in 1/10000
ExpTaylor(f, k, term, acc) ==
    IF term = 0 THEN acc
    ELSE LET next == (term * f) \div (1000 * k)
         IN ExpTaylor(f, k + 1, next,
                      IF k % 2 = 1 THEN acc - next ELSE acc + next)

RECURSIVE ExpWhole(_, _)
\* acc * e^(-n), in 1/10000 (e^(-1) = 0.3679)
ExpWhole(n, acc) ==
    IF n = 0 THEN acc ELSE ExpWhole(n - 1, (acc * 3679) \div 10000)

\* Math.exp(-x) for x = x1000/1000 >= 0, in 1/10000
MathExpNeg(x1000) ==
    IF x1000 >= 10000 THEN 0
    ELSE ExpWhole(x1000 \div 1000, ExpTaylor(x1000 % 1000, 1, 10000, 10000))

----------------------------------------------------------------------------
(* Ground-to-ground scorer *)

EARTH_RADIUS_KM == 6371

\* metres of great-circle arc per tenth of a degree, times 10:
\* EARTH_RADIUS_KM * pi / 1800 km
ArcUnit == (EARTH_RADIUS_KM * 31416) \div 1800

\* Haversine distance in metres.  Evaluated in closed form on the great
\* circles the model draws its positions from (a common meridian, or the
\* equator), where the haversine formula reduces to R * arc.
haversineDistance(pos1, pos2) ==
    LET dLat == Abs(pos2.lat - pos1.lat)
        dLonRaw == Abs(pos2.lon - pos1.lon)
        dLon == IF dLonRaw > 1800 THEN 3600 - dLonRaw ELSE dLonRaw
        arc == IF pos1.lon = pos2.lon THEN dLat ELSE dLon
    IN (ArcUnit * arc) \div 10

\* 3.57 * sqrt(K * altitudeMeters) km with K = 4/3, in metres
calculateHorizonDistance(altitude) ==
    (3570 * MathSqrt((4 * altitude * 100) \div 3)) \div 10

\* variant: rain and snow do not dim the air
calculateExtinctionCoefficientNoRain(w) ==
    5 + w.cloudCover * 5 + w.fog * 200

\* 0.05 + cloudCover*0.5 + precipitation*0.1 + fog*20, in 1/100
calculateExtinctionCoefficient(w) ==
    LET betaBase == 5
        betaCloud == w.cloudCover * 5
        betaPrecipitation == w.precipitation * 10
        betaFog == w.fog * 200
    IN betaBase + betaCloud + betaPrecipitation + betaFog

\* 3.912 / extinctionCoeff km, in whole metres (rounded down: a distance in
\* whole metres exceeds the limit iff it exceeds its floor)
calculateKoschmiederVisibility(extinctionCoeff) ==
    391200 \div extinctionCoeff

\* variant: the dusk bands close one hour later (<= instead of <)
getTimeOfDayFactorLateDusk(position, hour) ==
    IF hour >= 6 /\ hour <= 20 THEN 100
    ELSE IF (hour >= 5 /\ hour < 6) \/ (hour >= 20 /\ hour <= 21) THEN 70
    ELSE IF (hour >= 4 /\ hour < 5) \/ (hour >= 21 /\ hour <= 22) THEN 50
    ELSE 30

\* local-hour lookup, in 1/100
getTimeOfDayFactor(position, hour) ==
    IF hour >= 6 /\ hour < 20 THEN 100
    ELSE IF (hour >= 5 /\ hour < 6) \/ (hour >= 20 /\ hour < 21) THEN 70
    ELSE IF (hour >= 4 /\ hour < 5) \/ (hour >= 21 /\ hour < 22) THEN 50
    ELSE 30

\* Math.round(timeFactor * 9 + 1), timeFactor in 1/100
timeFactorToRating(timeFactor) ==
    MathRound(timeFactor * 9 + 100, 100)

\* extinction coefficient (1/100) to 1-10 rating
getWeatherRating(extinctionCoeff) ==
    IF extinctionCoeff <= 5 THEN 10
    ELSE IF extinctionCoeff <= 10 THEN 9
    ELSE IF extinctionCoeff <= 20 THEN 8
    ELSE IF extinctionCoeff <= 50 THEN 7
    ELSE IF extinctionCoeff <= 100 THEN 6
    ELSE IF extinctionCoeff <= 200 THEN 5
    ELSE IF extinctionCoeff <= 500 THEN 4
    ELSE IF extinctionCoeff <= 1000 THEN 3
    ELSE IF extinctionCoeff <= 2000 THEN 2
    ELSE 1

\* denominator of the surface score: contrast (1/10000) * timeFactor (1/100)
SurfaceDen == 10000 * 100

\* Math.max(0, Math.min(1, x)) on a numerator over den
Clamp01(x, den) == Max(0, Min(den, x))

\* Math.exp(-extinctionCoeff * distance), in 1/10000
contrastAtDistance(extinctionCoeff, distance) ==
    MathExpNeg((extinctionCoeff * distance) \div 100)

\* variant: the effective limit is the larger of the two limits
calculateVisibilityScoreMaxLimit(obs, tgt, w, hour) ==
    LET distance == haversineDistance(obs, tgt)
        maxLOS == calculateHorizonDistance(obs.altitude)
                  + calculateHorizonDistance(tgt.altitude)
        extinctionCoeff == calculateExtinctionCoefficient(w)
        weatherLimit == calculateKoschmiederVisibility(extinctionCoeff)
        effectiveLimit == Max(maxLOS, weatherLimit)
    IN IF distance > effectiveLimit THEN 0
       ELSE Clamp01(contrastAtDistance(extinctionCoeff, distance)
                    * getTimeOfDayFactor(obs, hour), SurfaceDen)

\* variant: a target exactly at the limit is cut off as well
calculateVisibilityScoreCutAtLimit(obs, tgt, w, hour) ==
    LET distance == haversineDistance(obs, tgt)
        maxLOS == calculateHorizonDistance(obs.altitude)
                  + calculateHorizonDistance(tgt.altitude)
        extinctionCoeff == calculateExtinctionCoefficient(w)
        weatherLimit == calculateKoschmiederVisibility(extinctionCoeff)
        effectiveLimit == Min(maxLOS, weatherLimit)
    IN IF distance >= effectiveLimit THEN 0
       ELSE Clamp01(contrastAtDistance(extinctionCoeff, distance)
                    * getTimeOfDayFactor(obs, hour), SurfaceDen)

calculateVisibilityScore(obs, tgt, w, hour) ==
    LET distance == haversineDistance(obs, tgt)
        observerHorizon == calculateHorizonDistance(obs.altitude)
        targetHorizon == calculateHorizonDistance(tgt.altitude)
        maxLOS == observerHorizon + targetHorizon
        extinctionCoeff == calculateExtinctionCoefficient(w)
        weatherLimit == calculateKoschmiederVisibility(extinctionCoeff)
        effectiveLimit == Min(maxLOS, weatherLimit)
    IN IF distance > effectiveLimit THEN 0
       ELSE LET contrast == contrastAtDistance(extinctionCoeff, distance)
                timeFactor == getTimeOfDayFactor(obs, hour)
            IN Clamp01(contrast * timeFactor, SurfaceDen)

----------------------------------------------------------------------------
(* Celestial scorer *)

\* optional fields (ra, dec, magnitude) are <<>> when null/undefined and
\* <<v>> when set
NullObject ==
    [isNull |-> TRUE, id |-> "", type |-> "", ra |-> <<>>, dec |-> <<>>,
     magnitude |-> <<>>]

\* object?.type ?? 'moon'
ObjectType(obj) == IF obj.isNull THEN "moon" ELSE obj.type

\* object?.id ?? 'moon'
ObjectId(obj) == IF obj.isNull THEN "moon" ELSE obj.id

\* !object?.ra : null, undefined and 0 are falsy
RaFalsy(obj) == obj.isNull \/ obj.ra = <<>> \/ obj.ra = <<0>>

\* object?.ra != null && object?.dec != null
HasRaDec(obj) == ~obj.isNull /\ obj.ra # <<>> /\ obj.dec # <<>>

\* the altitude the hour-angle formula yields for (ra, dec) at the observer
\* and time of the call; asin clamps it into [-90, 90]
raDecToAltitude(ra, dec, s) == Max(-90, Min(90, s.raDecAlt))

\* which of the four arms of step 1 resolves the object
ResolutionBranch(obj) ==
    IF ObjectId(obj) = "moon" \/ (ObjectType(obj) = "moon" /\ RaFalsy(obj))
    THEN "moon"
    ELSE IF ObjectId(obj) = "sun" THEN "sun"
    ELSE IF HasRaDec(obj) THEN "radec"
    ELSE "fallback"

\* step 1, altitude in degrees
objectAltitudeDeg(s, obj) ==
    LET branch == ResolutionBranch(obj)
    IN IF branch = "moon" THEN s.moonAlt
       ELSE IF branch = "sun" THEN s.sunAlt
       ELSE IF branch = "radec" THEN raDecToAltitude(obj.ra[1], obj.dec[1], s)
       ELSE s.moonAlt

\* step 1, brightness in 1/900
brightnessFactor(s, obj) ==
    LET branch == ResolutionBranch(obj)
        moonBrightness == 9 * (10 + 9 * s.moonFraction)
    IN IF branch = "moon" THEN moonBrightness
       ELSE IF branch = "sun" THEN 900
       ELSE IF branch = "radec"
            THEN LET mag == IF obj.magnitude = <<>> THEN 20
                            ELSE obj.magnitude[1]
                 IN Max(45, Min(900, 9 * (60 - mag)))
       ELSE moonBrightness

\* variant: the altitude ramp saturates at the zenith instead of at 60
altitudeFactorZenith(alt) == Min(900, Max(0, 10 * alt))

\* step 3, in 1/900
altitudeFactor(alt) == Min(900, Max(0, 15 * alt))

\* variant: the ramp starts at the horizon and jumps at 10 degrees
horizonRampFromHorizon(alt) == IF alt < 10 THEN Max(0, alt) ELSE 12

\* step 4, in 1/12
horizonRamp(alt) == IF alt < 10 THEN Max(0, alt + 2) ELSE 12

\* variant: the cloud and fog weights are exchanged
weatherFactorSwapped(w) == Max(0, 900 - 45 * w.cloudCover - 81 * w.fog)

\* step 5, in 1/900
weatherFactor(w) == Max(0, 900 - 81 * w.cloudCover - 45 * w.fog)

\* variant: the twilight bands include their upper bounds
timeFactorInclusiveBands(obj, sunAltitudeDeg) ==
    IF ObjectId(obj) = "sun"
    THEN IF sunAltitudeDeg > 0 THEN 900 ELSE 0
    ELSE IF sunAltitudeDeg <= -18 THEN 900
    ELSE IF sunAltitudeDeg <= -12 THEN 810
    ELSE IF sunAltitudeDeg <= -6 THEN 675
    ELSE IF sunAltitudeDeg <= 0 THEN 450
    ELSE IF ObjectId(obj) = "moon" \/ ObjectType(obj) = "moon"
         THEN Max(180, 450 - 5 * sunAltitudeDeg)
    ELSE 0

\* variant: the Sun counts as up when it is exactly on the horizon
timeFactorSunAtHorizon(obj, sunAltitudeDeg) ==
    IF ObjectId(obj) = "sun"
    THEN IF sunAltitudeDeg >= 0 THEN 900 ELSE 0
    ELSE IF sunAltitudeDeg < -18 THEN 900
    ELSE IF sunAltitudeDeg < -12 THEN 810
    ELSE IF sunAltitudeDeg < -6 THEN 675
    ELSE IF sunAltitudeDeg < 0 THEN 450
    ELSE IF ObjectId(obj) = "moon" \/ ObjectType(obj) = "moon"
         THEN Max(180, 450 - 5 * sunAltitudeDeg)
    ELSE 0

\* step 6, in 1/900
timeFactor(obj, sunAltitudeDeg) ==
    IF ObjectId(obj) = "sun"
    THEN IF sunAltitudeDeg > 0 THEN 900 ELSE 0
    ELSE IF sunAltitudeDeg < -18 THEN 900
    ELSE IF sunAltitudeDeg < -12 THEN 810
    ELSE IF sunAltitudeDeg < -6 THEN 675
    ELSE IF sunAltitudeDeg < 0 THEN 450
    ELSE IF ObjectId(obj) = "moon" \/ ObjectType(obj) = "moon"
         THEN Max(180, 450 - 5 * sunAltitudeDeg)
    ELSE 0

\* step 7, weighted sum in 1/90000
rawScore(wf, tf, af, bf) == 30 * wf + 30 * tf + 25 * af + 15 * bf

\* denominator of the celestial score: rawScore (1/90000) * ramp (1/12)
CelestialDen == 900 * 100 * 12

\* variant: the superseded scorer without the horizon gate and ramp
calculateCelestialVisibilityScoreNoHorizon(s, w, obj) ==
    LET alt == objectAltitudeDeg(s, obj)
        tf == timeFactor(obj, s.sunAlt)
    IN IF tf <= 0 THEN 0
       ELSE Clamp01(rawScore(weatherFactor(w), tf, altitudeFactor(alt),
                             brightnessFactor(s, obj)) * 12,
                    CelestialDen)

\* variant: the score is returned as a percentage
calculateCelestialVisibilityScorePercent(s, w, obj) ==
    LET alt == objectAltitudeDeg(s, obj)
        tf == timeFactor(obj, s.sunAlt)
    IN IF alt < -2 THEN 0
       ELSE IF tf <= 0 THEN 0
       ELSE Max(0, Min(100 * CelestialDen,
                100 * rawScore(weatherFactor(w), tf, altitudeFactor(alt),
                               brightnessFactor(s, obj)) * horizonRamp(alt)))

calculateCelestialVisibilityScore(s, w, obj) ==
    LET alt == objectAltitudeDeg(s, obj)
        tf == timeFactor(obj, s.sunAlt)
    IN IF alt < -2 THEN 0
       ELSE IF tf <= 0 THEN 0
       ELSE Clamp01(rawScore(weatherFactor(w), tf, altitudeFactor(alt),
                             brightnessFactor(s, obj)) * horizonRamp(alt),
                    CelestialDen)

\* variant: every object of type 'moon' is placed at the Moon
BreakdownBranchAnyMoon(obj) ==
    IF ObjectId(obj) = "moon" \/ (~obj.isNull /\ obj.type = "moon")
    THEN "moon"
    ELSE IF ObjectId(obj) = "sun" THEN "sun"
    ELSE IF HasRaDec(obj) THEN "radec"
    ELSE "fallback"

\* altitude resolution of the breakdown (its own copy of step 1)
BreakdownBranch(obj) ==
    IF ObjectId(obj) = "moon"
       \/ (~obj.isNull /\ obj.type = "moon" /\ RaFalsy(obj))
    THEN "moon"
    ELSE IF ObjectId(obj) = "sun" THEN "sun"
    ELSE IF HasRaDec(obj) THEN "radec"
    ELSE "fallback"

\* variant: the daytime rating is not floored at 2
BreakdownTimeRatingNoFloor(obj, sunAltitudeDeg) ==
    IF ObjectId(obj) = "sun"
    THEN IF sunAltitudeDeg > 0 THEN 10 ELSE 1
    ELSE IF sunAltitudeDeg < -18 THEN 10
    ELSE IF sunAltitudeDeg < -12 THEN 9
    ELSE IF sunAltitudeDeg < -6 THEN 7
    ELSE IF sunAltitudeDeg < 0 THEN 5
    ELSE MathRound(90 - sunAltitudeDeg, 18)

\* timeRating of the breakdown
BreakdownTimeRating(obj, sunAltitudeDeg) ==
    IF ObjectId(obj) = "sun"
    THEN IF sunAltitudeDeg > 0 THEN 10 ELSE 1
    ELSE IF sunAltitudeDeg < -18 THEN 10
    ELSE IF sunAltitudeDeg < -12 THEN 9
    ELSE IF sunAltitudeDeg < -6 THEN 7
    ELSE IF sunAltitudeDeg < 0 THEN 5
    ELSE Max(2, MathRound(90 - sunAltitudeDeg, 18))

\* weatherRating of the breakdown: Math.round((1 - cloudCover) * 9 + 1)
BreakdownWeatherRating(w) == MathRound((10 - w.cloudCover) * 9 + 10, 10)

\* variant: an object exactly on the horizon counts as above it
getCelestialVisibilityBreakdownAtHorizon(s, w, obj) ==
    LET branch == BreakdownBranch(obj)
        alt == IF branch = "sun" THEN s.sunAlt
               ELSE IF branch = "radec"
                    THEN raDecToAltitude(obj.ra[1], obj.dec[1], s)
               ELSE s.moonAlt
        illumination == IF branch \in {"moon", "fallback"}
                        THEN <<s.moonFraction * 10>> ELSE <<>>
    IN [score |-> calculateCelestialVisibilityScore(s, w, obj),
        objectAltitude |-> alt,
        illumination |-> illumination,
        isAboveHorizon |-> alt >= 0,
        weatherRating |-> BreakdownWeatherRating(w),
        timeRating |-> BreakdownTimeRating(obj, s.sunAlt)]

getCelestialVisibilityBreakdown(s, w, obj) ==
    LET branch == BreakdownBranch(obj)
        alt == IF branch = "sun" THEN s.sunAlt
               ELSE IF branch = "radec"
                    THEN raDecToAltitude(obj.ra[1], obj.dec[1], s)
               ELSE s.moonAlt
        illumination == IF branch \in {"moon", "fallback"}
                        THEN <<s.moonFraction * 10>> ELSE <<>>
    IN [score |-> calculateCelestialVisibilityScore(s, w, obj),
        objectAltitude |-> alt,
        illumination |-> illumination,
        isAboveHorizon |-> alt > 0,
        weatherRating |-> BreakdownWeatherRating(w),
        timeRating |-> BreakdownTimeRating(obj, s.sunAlt)]

----------------------------------------------------------------------------
(* Inputs *)

Position(lat, lon, altitude) ==
    [lat |-> lat, lon |-> lon, altitude |-> altitude]

\* observers: at (0, 0), at sea level and on a hill
Observers == { Position(0, 0, a) : a \in {0, 100} }

\* targets: along the equator and along the observer's meridian, on the
\* ground, on a mast and in low Earth orbit (400 km)
Targets ==
    { Position(0, lon, a) : lon \in (-1)..MaxArc, a \in {0, 100, 400000} }
    \cup { Position(lat, 0, a) : lat \in {-3, 5}, a \in {0, 100, 400000} }

Hours == 0..23

Weathers ==
    [cloudCover : {0, 5, 10}, precipitation : 0..MaxPrecip, fog : {0, 2, 10}]

Object(id, type, ra, dec, magnitude) ==
    [isNull |-> FALSE, id |-> id, type |-> type, ra |-> ra, dec |-> dec,
     magnitude |-> magnitude]

\* the catalogue: Earth's Moon, the Sun, planets and distant moons, with and
\* without the optional ra / dec / magnitude columns (ra = 0 is a legal
\* right ascension)
Objects ==
    { NullObject,
      Object("moon", "moon", <<>>, <<>>, <<>>),
      Object("moon", "moon", <<120>>, <<20>>, <<-120>>),
      Object("sun", "star", <<>>, <<>>, <<>>),
      Object("sun", "star", <<120>>, <<20>>, <<-260>>),
      Object("venus", "planet", <<120>>, <<20>>, <<-40>>),
      Object("saturn", "planet", <<0>>, <<20>>, <<5>>),
      Object("neptune", "planet", <<120>>, <<20>>, <<80>>),
      Object("mars", "planet", <<120>>, <<20>>, <<>>),
      Object("mars", "planet", <<>>, <<>>, <<10>>),
      Object("ceres", "dwarf_planet", <<120>>, <<>>, <<70>>),
      Object("titan", "moon", <<120>>, <<20>>, <<80>>),
      Object("titan", "moon", <<0>>, <<20>>, <<80>>),
      Object("titan", "moon", <<>>, <<>>, <<>>) }

\* altitudes of the Moon and of RA/Dec objects, degrees
ObjectAltitudes == {-90, -3, -2, 0, 9, 10, 45, 60, 90}

\* altitudes of the Sun, degrees
SunAltitudes == {-90, -19, -18, -13, -12, -7, -6, -3, -2, -1, 0, 1, 54, 90}

\* illuminated fraction of the Moon, tenths
MoonFractions == {0, 5, 10}

\* the skies an object is scored under.  The hour-angle formula is only
\* evaluated for an object that carries ra and dec; for such an object the
\* Moon is drawn below and above the horizon only.
Skies(obj) ==
    [moonAlt : IF HasRaDec(obj) THEN {-3, 45} ELSE ObjectAltitudes,
     sunAlt : SunAltitudes,
     raDecAlt : IF HasRaDec(obj) THEN ObjectAltitudes ELSE {0},
     moonFraction : MoonFractions]

\* extinction coefficients handed to getWeatherRating, 1/100
ExtinctionCoeffs ==
    { calculateExtinctionCoefficient(w) : w \in Weathers }
    \cup {5, 6, 10, 11, 20, 21, 50, 51, 100, 101, 200, 201, 500, 501, 1000,
          1001, 2000, 2001, 10000}

\* time factors handed to timeFactorToRating, 1/100
TimeFactors == 0..100

----------------------------------------------------------------------------
(* Call / return state machine *)

NoPosition == Position(0, 0, 0)
NoWeather == [cloudCover |-> 0, precipitation |-> 0, fog |-> 0]
NoSky == [moonAlt |-> 0, sunAlt |-> 0, raDecAlt |-> 0, moonFraction |-> 0]
NoBreakdown ==
    [score |-> 0, objectAltitude |-> 0, illumination |-> <<>>,
     isAboveHorizon |-> FALSE, weatherRating |-> 1, timeRating |-> 1]

\* no call of the atmospheric helpers in progress
NoAtmos ==
    [op |-> "idle", position |-> NoPosition, hour |-> 0, timeFactor |-> 0,
     weather |-> NoWeather, weatherLimit |-> 0,
     moreWeather |-> NoWeather, moreWeatherLimit |-> 0]

\* no record handed out by the weather service
NoServiceWeather ==
    [cloudCover |-> 0, precipitation |-> 0, fog |-> 0, den |-> 1,
     extinctionCoeff |-> 0]
NoService ==
    [op |-> "idle", lat |-> 0, lon |-> 0,
     data |-> [cloud_cover |-> <<>>, precipitation |-> <<>>,
               visibility_km |-> <<>>],
     weather |-> NoServiceWeather]

\* no classification in progress
NoYallopResult == [q |-> 0, zone |-> "-", label |-> "-"]
NoYallop ==
    [op |-> "idle",
     times |-> [sunset |-> <<>>, moonset |-> <<>>, alwaysUp |-> FALSE],
     positions |-> [moonAltDeg |-> 0, sunAltDeg |-> 0, Wprime |-> 0],
     bestTime |-> <<>>,
     result |-> NoYallopResult,
     previous |-> <<>>]


\* a host in UTC on which calculateVisibilityScore has not been called
NoHostCall ==
    [instant |-> 0, observerPos |-> NoPosition, targetPos |-> NoPosition,
     weather |-> NoWeather]
NoHost ==
    [op |-> "idle", timeZone |-> 0, call |-> NoHostCall, score |-> 0,
     previous |-> <<>>]


\* the crescent layer module as loaded: zoneCache empty, no layer on the map
NoCrescentDate == [day |-> 0, terminator |-> 0]
NoCrescent ==
    [op |-> "idle", mounted |-> FALSE, date |-> NoCrescentDate,
     zoneCache |-> <<>>, cells |-> <<>>, painted |-> <<>>]


\* the grid layer module as loaded: visibilityCache empty, the component not
\* rendered, no object selected in the store
NoGrid ==
    [mounted |-> FALSE, selectedObject |-> NullObject, weatherCache |-> <<>>,
     loadPending |-> FALSE, now |-> 0, timeRef |-> 0, layer |-> <<>>,
     visibilityCache |-> <<>>, drawn |-> <<>>]


\* weatherService as loaded: bulkWeatherCache = null, bulkCacheTimestamp = 0
NoBulk ==
    [op |-> "idle", now |-> 0, bulkWeatherCache |-> <<>>,
     bulkCacheTimestamp |-> 0, response |-> "-", returned |-> <<>>]


\* VisibilityTooltip after its first render: hidden, no pixel, no timer
NoTooltip ==
    [currentPixelRef |-> <<>>, timeoutRef |-> <<>>,
     tooltipVisibleRef |-> FALSE, tooltipVisible |-> FALSE,
     tooltipPosition |-> [x |-> 0, y |-> 0], visibilityData |-> <<>>,
     timers |-> {}, requests |-> {}, mouseInside |-> FALSE]

Init ==
    /\ op = "idle"
    /\ observerPos = NoPosition
    /\ targetPos = NoPosition
    /\ currentHour = 0
    /\ weather = NoWeather
    /\ object = NullObject
    /\ sky = NoSky
    /\ ratingArg = 0
    /\ score = 0
    /\ scoreDen = 1
    /\ breakdown = NoBreakdown
    /\ rating = 1
    /\ atmos = NoAtmos
    /\ service = NoService
    /\ yallop = NoYallop
    /\ host = NoHost
    /\ crescent = NoCrescent
    /\ grid = NoGrid
    /\ bulk = NoBulk
    /\ tooltip = NoTooltip

CallCalculateVisibilityScore ==
    /\ op = "idle"
    /\ UNCHANGED <<atmos, service, yallop, host, crescent, grid, bulk, tooltip>>
    /\ \E obs \in Observers, tgt \in Targets, w \in Weathers, h \in Hours :
          /\ observerPos' = obs
          /\ targetPos' = tgt
          /\ weather' = w
          /\ currentHour' = h
          /\ score' = calculateVisibilityScore(obs, tgt, w, h)
    /\ scoreDen' = SurfaceDen
    /\ op' = "calculateVisibilityScore"
    /\ UNCHANGED <<object, sky, ratingArg, breakdown, rating>>

CallCalculateCelestialVisibilityScore ==
    /\ op = "idle"
    /\ UNCHANGED <<atmos, service, yallop, host, crescent, grid, bulk, tooltip>>
    /\ \E obj \in Objects, w \in Weathers :
          /\ w.precipitation = 0
          /\ \E s \in Skies(obj) :
                /\ object' = obj
                /\ weather' = w
                /\ sky' = s
                /\ score' = calculateCelestialVisibilityScore(s, w, obj)
    /\ scoreDen' = CelestialDen
    /\ op' = "calculateCelestialVisibilityScore"
    /\ UNCHANGED <<observerPos, targetPos, currentHour, ratingArg, breakdown,
                   rating>>

CallGetCelestialVisibilityBreakdown ==
    /\ op = "idle"
    /\ UNCHANGED <<atmos, service, yallop, host, crescent, grid, bulk, tooltip>>
    /\ \E obj \in Objects, w \in Weathers :
          /\ w.precipitation = 0
          /\ \E s \in Skies(obj) :
                /\ object' = obj
                /\ weather' = w
                /\ sky' = s
                /\ breakdown' = getCelestialVisibilityBreakdown(s, w, obj)
    /\ score' = breakdown'.score
    /\ scoreDen' = CelestialDen
    /\ op' = "getCelestialVisibilityBreakdown"
    /\ UNCHANGED <<observerPos, targetPos, currentHour, ratingArg, rating>>

CallGetWeatherRating ==
    /\ op = "idle"
    /\ UNCHANGED <<atmos, service, yallop, host, crescent, grid, bulk, tooltip>>
    /\ \E e \in ExtinctionCoeffs :
          /\ ratingArg' = e
          /\ rating' = getWeatherRating(e)
    /\ op' = "getWeatherRating"
    /\ UNCHANGED <<observerPos, targetPos, currentHour, weather, object, sky,
                   score, scoreDen, breakdown>>

CallTimeFactorToRating ==
    /\ op = "idle"
    /\ UNCHANGED <<atmos, service, yallop, host, crescent, grid, bulk, tooltip>>
    /\ \E tf \in TimeFactors :
          /\ ratingArg' = tf
          /\ rating' = timeFactorToRating(tf)
    /\ op' = "timeFactorToRating"
    /\ UNCHANGED <<observerPos, targetPos, currentHour, weather, object, sky,
                   score, scoreDen, breakdown>>

\* the caller takes the result; the engine keeps nothing between calls
Return ==
    /\ op # "idle"
    /\ op' = "idle"
    /\ observerPos' = NoPosition
    /\ targetPos' = NoPosition
    /\ currentHour' = 0
    /\ weather' = NoWeather
    /\ object' = NullObject
    /\ sky' = NoSky
    /\ ratingArg' = 0
    /\ score' = 0
    /\ scoreDen' = 1
    /\ breakdown' = NoBreakdown
    /\ rating' = 1
    /\ UNCHANGED <<atmos, service, yallop, host, crescent, grid, bulk, tooltip>>

Next ==
    \/ CallCalculateVisibilityScore
    \/ CallCalculateCelestialVisibilityScore
    \/ CallGetCelestialVisibilityBreakdown
    \/ CallGetWeatherRating
    \/ CallTimeFactorToRating
    \/ Return

Spec == Init /\ [][Next]_vars

----------------------------------------------------------------------------
(* Properties of the scoring engine *)

CelestialCall ==
    op \in {"calculateCelestialVisibilityScore",
            "getCelestialVisibilityBreakdown"}

ClearSky == weather.cloudCover = 0 /\ weather.fog = 0

\* C1: the celestial scorer returns exactly 0 whenever the altitude resolved
\* for the object (Moon, Sun, RA/Dec object or fallback) is below -2 degrees,
\* for every sky, weather and object.
C1_BelowHorizonScoresZero ==
    (CelestialCall /\ objectAltitudeDeg(sky, object) < -2) => score = 0

\* a bright planet 3 degrees below the horizon on a clear astronomical
\* night: everything but the altitude would give a positive score
C1_Witness ==
    /\ op = "calculateCelestialVisibilityScore"
    /\ object.id = "venus"
    /\ sky.raDecAlt = -3
    /\ sky.sunAlt = -19
    /\ ClearSky
    /\ score = 0

\* C2: whenever the Sun's altitude is >= 0 the celestial scorer returns
\* exactly 0 for every object that is neither the Sun nor Earth's Moon,
\* whatever its type, id, magnitude and ra/dec.
C2_DaytimeGateForEveryOtherObject ==
    (/\ CelestialCall
     /\ sky.sunAlt >= 0
     /\ ~object.isNull
     /\ object.id \notin {"sun", "moon"})
    => score = 0

\* C3: every score returned by calculateVisibilityScore, by
\* calculateCelestialVisibilityScore and in the score field of
\* getCelestialVisibilityBreakdown lies in [0, 1].
C3_ScoreInUnitInterval ==
    /\ (op = "calculateVisibilityScore" \/ CelestialCall)
       => (0 <= score /\ score <= scoreDen)
    /\ op = "getCelestialVisibilityBreakdown"
       => (0 <= breakdown.score /\ breakdown.score <= CelestialDen)

\* the full Moon at 60 degrees on a clear astronomical night scores exactly 1
C3_Witness ==
    /\ op = "getCelestialVisibilityBreakdown"
    /\ object.id = "moon"
    /\ sky.moonAlt = 60
    /\ sky.moonFraction = 10
    /\ breakdown.score = CelestialDen

\* C4: every rating the engine returns is an integer in [1, 10]:
\* getWeatherRating, timeFactorToRating, and weatherRating and timeRating of
\* the breakdown.
C4_RatingsInRange ==
    /\ op \in {"getWeatherRating", "timeFactorToRating"} => rating \in 1..10
    /\ op = "getCelestialVisibilityBreakdown"
       => (breakdown.weatherRating \in 1..10 /\ breakdown.timeRating \in 1..10)

\* the Sun at the zenith under a full overcast: both ratings of the
\* breakdown sit at the low end, the time rating on its floor of 2
C4_Witness ==
    /\ op = "getCelestialVisibilityBreakdown"
    /\ ObjectId(object) = "moon"
    /\ sky.sunAlt = 90
    /\ weather.cloudCover = 10
    /\ breakdown.weatherRating = 1
    /\ breakdown.timeRating = 2

\* end-to-end scenario 1: observer (0, 0, 0 km), target (0, 1 deg, 400 km),
\* clear weather, midday
Scenario1 ==
    /\ op = "calculateVisibilityScore"
    /\ observerPos = Position(0, 0, 0)
    /\ targetPos = Position(0, 10, 400000)
    /\ weather = [cloudCover |-> 0, precipitation |-> 0, fog |-> 0]
    /\ currentHour = 12

\* C5 as stated: in scenario 1 the surface scorer returns a score strictly
\* between 0 and 1.
C5_Scenario1PositiveBelowOne ==
    Scenario1 => (0 < score /\ score < scoreDen)

\* C5 as amended: in scenario 1 the surface scorer returns exactly 0: the
\* distance of about 111 km is within the line of sight but beyond the
\* clear-air Koschmieder limit 3.912 / 0.05 = 78.24 km.
C5_Scenario1ScoresZero ==
    Scenario1 =>
        /\ haversineDistance(observerPos, targetPos)
             <= calculateHorizonDistance(observerPos.altitude)
                + calculateHorizonDistance(targetPos.altitude)
        /\ haversineDistance(observerPos, targetPos) > 78240
        /\ score = 0

C5_Witness == Scenario1 /\ score = 0

\* end-to-end scenario 3: the Moon at 45 degrees, half illuminated, no cloud,
\* no fog, astronomical night
Scenario3 ==
    /\ CelestialCall
    /\ ObjectId(object) = "moon"
    /\ sky.moonAlt = 45
    /\ sky.moonFraction = 5
    /\ ClearSky
    /\ sky.sunAlt < -18

\* 0.30*1 + 0.30*1 + 0.25*0.75 + 0.15*0.55 over CelestialDen
Scenario3Sum ==
    (30 * 900 + 30 * 900 + 25 * 675 + 15 * 495) * 12

\* C6 as stated: in scenario 3 the score equals
\* 0.30*1 + 0.30*1 + 0.25*0.75 + 0.15*0.55 and is 0.82 to two decimals.
C6_Scenario3About082 ==
    Scenario3 =>
        /\ score = Scenario3Sum
        /\ 163 * scoreDen <= 200 * score
        /\ 200 * score < 165 * scoreDen

\* C6 as amended: in scenario 3 the score equals
\* 0.30*1 + 0.30*1 + 0.25*0.75 + 0.15*0.55, which is 0.87.
C6_Scenario3Is087 ==
    Scenario3 => (score = Scenario3Sum /\ 100 * score = 87 * scoreDen)

C6_Witness ==
    Scenario3 /\ op = "calculateCelestialVisibilityScore" /\ score > 0

\* C7: calculateVisibilityScore returns exactly 0 whenever the great-circle
\* distance exceeds min(horizon(observer) + horizon(target), 3.912/extinction)
\* and otherwise exp(-extinction * distance) * timeOfDayFactor clamped to
\* [0, 1].
C7_SurfaceScoreCutoffAndContrast ==
    op = "calculateVisibilityScore" =>
        LET d == haversineDistance(observerPos, targetPos)
            beta == calculateExtinctionCoefficient(weather)
            geometric == calculateHorizonDistance(observerPos.altitude)
                         + calculateHorizonDistance(targetPos.altitude)
            atmospheric == calculateKoschmiederVisibility(beta)
        IN IF d > geometric \/ d > atmospheric
           THEN score = 0
           ELSE score = Max(0, Min(SurfaceDen,
                                   contrastAtDistance(beta, d)
                                   * getTimeOfDayFactor(observerPos,
                                                        currentHour)))

\* a mast 55.6 km away in clear air at dusk: inside both limits, scored by
\* contrast times the time factor
C7_Witness ==
    /\ op = "calculateVisibilityScore"
    /\ observerPos.altitude = 100
    /\ targetPos = Position(0, 5, 100)
    /\ weather = [cloudCover |-> 0, precipitation |-> 0, fog |-> 0]
    /\ currentHour = 20
    /\ 0 < score
    /\ score < scoreDen

\* C8: when neither hard gate fires the celestial score equals
\* clamp01((0.30 wf + 0.30 tf + 0.25 af + 0.15 bf) * horizonRamp) with
\* wf = max(0, 1 - 0.9 cloudCover - 0.5 fog), af = clamp(alt/60, 0, 1) and
\* bf = 0.1 + 0.9 fraction for the Moon, 1 for the Sun and
\* clamp((6 - magnitude)/10, 0.05, 1) for an RA/Dec object.
C8_WeightedScore ==
    LET alt == objectAltitudeDeg(sky, object)
        tf == timeFactor(object, sky.sunAlt)
        branch == ResolutionBranch(object)
        wf == Max(0, 900 - 81 * weather.cloudCover - 45 * weather.fog)
        af == Max(0, Min(900, 15 * alt))
        bf == IF branch = "moon" THEN 90 + 81 * sky.moonFraction
              ELSE IF branch = "sun" THEN 900
              ELSE Max(45, Min(900, 90 * 6 - 9 * object.magnitude[1]))
        covered == \/ branch \in {"moon", "sun"}
                   \/ branch = "radec" /\ object.magnitude # <<>>
    IN (CelestialCall /\ covered /\ alt >= -2 /\ tf > 0) =>
          score = Max(0, Min(CelestialDen,
                             (30 * wf + 30 * tf + 25 * af + 15 * bf)
                             * horizonRamp(alt)))

\* a faint planet 9 degrees up in civil twilight under half cloud and thin
\* fog: every factor is strictly between its ends
C8_Witness ==
    /\ op = "calculateCelestialVisibilityScore"
    /\ object.id = "saturn"
    /\ sky.raDecAlt = 9
    /\ sky.sunAlt = -7
    /\ weather.cloudCover = 5
    /\ weather.fog = 2
    /\ 0 < score
    /\ score < scoreDen

\* C9: for a non-Sun object the time factor is 1.0 if s < -18, 0.9 if
\* -18 <= s < -12, 0.75 if -12 <= s < -6 and 0.5 if -6 <= s < 0, s the Sun's
\* altitude; for the Moon with s >= 0 it is max(0.2, 0.5 - s/180), never
\* below 0.2, and the Moon above -2 degrees keeps a positive score by day.
C9_TimeFactorBands ==
    LET s == sky.sunAlt
        tf == timeFactor(object, s)
    IN (CelestialCall /\ ObjectId(object) # "sun") =>
          /\ s < -18 => tf = 900
          /\ (-18 <= s /\ s < -12) => tf = 810
          /\ (-12 <= s /\ s < -6) => tf = 675
          /\ (-6 <= s /\ s < 0) => tf = 450
          /\ (ObjectId(object) = "moon" /\ s >= 0) =>
                /\ 180 * tf = 900 * Max(36, 90 - s)
                /\ tf >= 180
                /\ sky.moonAlt > -2 => score > 0

\* the Moon by day with the Sun at the zenith: the time factor sits on its
\* floor of 0.2 and the score is positive
C9_Witness ==
    /\ op = "calculateCelestialVisibilityScore"
    /\ ObjectId(object) = "moon"
    /\ sky.sunAlt = 90
    /\ sky.moonAlt = 0
    /\ timeFactor(object, sky.sunAlt) = 180
    /\ score > 0

\* C10: for the Sun the time factor is 1.0 if the Sun is above the horizon
\* and 0 otherwise; its score is exactly 0 whenever its altitude is not above
\* 0 degrees and strictly positive whenever it is, for every weather.
C10_SunScoredOnlyAboveHorizon ==
    (CelestialCall /\ ObjectId(object) = "sun") =>
        /\ timeFactor(object, sky.sunAlt) = IF sky.sunAlt > 0 THEN 900 ELSE 0
        /\ sky.sunAlt <= 0 => score = 0
        /\ sky.sunAlt > 0 => score > 0

\* the Sun one degree up under full overcast and dense fog still scores
C10_Witness ==
    /\ op = "calculateCelestialVisibilityScore"
    /\ ObjectId(object) = "sun"
    /\ sky.sunAlt = 1
    /\ weather.cloudCover = 10
    /\ weather.fog = 10
    /\ score > 0

\* Earth's Moon as the store builds it when the catalogue is empty
MoonObject == Object("moon", "moon", <<>>, <<>>, <<>>)

\* C11: when no object is given, or the object carries no ra/dec and is not
\* the Sun, the scorer returns the score it returns for the Moon under the
\* same observer, time and weather, by night and by day.
C11_FallbackScoresAsMoon ==
    (/\ CelestialCall
     /\ \/ object.isNull
        \/ (~HasRaDec(object) /\ object.id # "sun"))
    => score = calculateCelestialVisibilityScore(sky, weather, MoonObject)

\* C12: in every breakdown isAboveHorizon is true exactly when the reported
\* objectAltitude is > 0, and illumination is null exactly for the Sun and
\* for RA/Dec objects and otherwise (Moon, Moon fallback) the illuminated
\* fraction as a percentage in [0, 100].
C12_BreakdownHorizonAndIllumination ==
    op = "getCelestialVisibilityBreakdown" =>
        /\ breakdown.isAboveHorizon = (breakdown.objectAltitude > 0)
        /\ (breakdown.illumination = <<>>)
              = (ResolutionBranch(object) \in {"sun", "radec"})
        /\ breakdown.illumination # <<>> =>
              /\ breakdown.illumination[1] \in 0..100
              /\ breakdown.illumination[1] = 10 * sky.moonFraction

\* a planet exactly on the horizon: not above it, and without a phase
C12_Witness ==
    /\ op = "getCelestialVisibilityBreakdown"
    /\ object.id = "venus"
    /\ breakdown.objectAltitude = 0
    /\ ~breakdown.isAboveHorizon
    /\ breakdown.illumination = <<>>

----------------------------------------------------------------------------
(***************************************************************************)
(* The atmospheric helpers of the surface scorer, called on their own.     *)
(***************************************************************************)

\* getTimeOfDayFactor(position, currentTime) for a sampled position and hour
CallGetTimeOfDayFactor ==
    /\ atmos.op = "idle"
    /\ \E pos \in Observers \cup Targets, h \in Hours :
          atmos' = [NoAtmos EXCEPT !.op = "getTimeOfDayFactor",
                                   !.position = pos,
                                   !.hour = h,
                                   !.timeFactor = getTimeOfDayFactor(pos, h)]
    /\ UNCHANGED <<engineVars, service, yallop, host, crescent, grid, bulk, tooltip>>

\* the weather limit of calculateVisibilityScore (lines 151-152) for two
\* weather records: extinction coefficient, then Koschmieder
CallCalculateKoschmiederVisibility ==
    /\ atmos.op = "idle"
    /\ \E w \in Weathers, more \in Weathers :
          atmos' = [NoAtmos EXCEPT
              !.op = "calculateKoschmiederVisibility",
              !.weather = w,
              !.weatherLimit =
                  calculateKoschmiederVisibility(
                      calculateExtinctionCoefficient(w)),
              !.moreWeather = more,
              !.moreWeatherLimit =
                  calculateKoschmiederVisibility(
                      calculateExtinctionCoefficient(more))]
    /\ UNCHANGED <<engineVars, service, yallop, host, crescent, grid, bulk, tooltip>>

ReturnAtmos ==
    /\ atmos.op # "idle"
    /\ atmos' = NoAtmos
    /\ UNCHANGED <<engineVars, service, yallop, host, crescent, grid, bulk, tooltip>>

NextAtmos ==
    \/ CallGetTimeOfDayFactor
    \/ CallCalculateKoschmiederVisibility
    \/ ReturnAtmos

SpecAtmos == Init /\ [][NextAtmos]_vars

\* moreWeather raises exactly one of the three fields of weather
OneFieldIncreased(w, more) ==
    \/ /\ more.cloudCover > w.cloudCover
       /\ more.precipitation = w.precipitation
       /\ more.fog = w.fog
    \/ /\ more.cloudCover = w.cloudCover
       /\ more.precipitation > w.precipitation
       /\ more.fog = w.fog
    \/ /\ more.cloudCover = w.cloudCover
       /\ more.precipitation = w.precipitation
       /\ more.fog > w.fog

\* C19: calculateKoschmiederVisibility(calculateExtinctionCoefficient(w))
\* strictly decreases when any one of cloudCover, precipitation or fog
\* increases and the other two stay fixed.
C19_WeatherLimitStrictlyDecreases ==
    (/\ atmos.op = "calculateKoschmiederVisibility"
     /\ OneFieldIncreased(atmos.weather, atmos.moreWeather))
    => atmos.moreWeatherLimit < atmos.weatherLimit

\* only the rain gets heavier, under full cloud and full fog
C19_Witness ==
    /\ atmos.op = "calculateKoschmiederVisibility"
    /\ atmos.weather = [cloudCover |-> 10, precipitation |-> 1, fog |-> 10]
    /\ atmos.moreWeather = [cloudCover |-> 10, precipitation |-> 2, fog |-> 10]
    /\ atmos.moreWeatherLimit < atmos.weatherLimit

\* C20: getTimeOfDayFactor is a total lookup on the local hour 0..23 with
\* four values: 1.0 for 6 <= h <= 19, 0.7 for h = 5 or 20, 0.5 for h = 4 or
\* 21, 0.3 otherwise, whatever the observer position.
C20_TimeOfDayLookup ==
    atmos.op = "getTimeOfDayFactor" =>
        /\ atmos.hour \in 0..23
        /\ atmos.timeFactor \in {100, 70, 50, 30}
        /\ (atmos.timeFactor = 100) = (6 <= atmos.hour /\ atmos.hour <= 19)
        /\ (atmos.timeFactor = 70) = (atmos.hour \in {5, 20})
        /\ (atmos.timeFactor = 50) = (atmos.hour \in {4, 21})
        /\ (atmos.timeFactor = 30) = (atmos.hour \in (0..3) \cup {22, 23})

\* eight in the evening, seen from a place that is not the model's origin
C20_Witness ==
    /\ atmos.op = "getTimeOfDayFactor"
    /\ atmos.hour = 20
    /\ atmos.position # NoPosition
    /\ atmos.timeFactor = 70

----------------------------------------------------------------------------
(***************************************************************************)
(* weatherService.ts: the WeatherConditions records it builds.             *)
(* A record carries its own denominator den: cloudCover, precipitation and *)
(* fog are numerators over den, extinctionCoeff is a numerator over        *)
(* 10 * den.  Forecast rows use den = 10, the mock generator uses          *)
(* den = 233280 * 100.                                                     *)
(***************************************************************************)

\* variant: the clear-air term is missing
wsCalculateExtinctionCoefficientNoBase(w) ==
    5 * w.cloudCover + w.precipitation + 200 * w.fog

\* the service's private calculateExtinctionCoefficient:
\* 0.05 + cloudCover*0.5 + precipitation*0.1 + fog*20, over 10 * den
wsCalculateExtinctionCoefficient(w) ==
    LET betaBase == w.den \div 2
        betaCloud == w.cloudCover * 5
        betaPrecipitation == w.precipitation
        betaFog == w.fog * 200
    IN betaBase + betaCloud + betaPrecipitation + betaFog

\* a weather_forecast row with null columns as <<>>: cloud_cover in percent,
\* precipitation in mm/h, visibility_km in km
ForecastRows ==
    [cloud_cover : {<<>>} \cup {<<c>> : c \in {0, 50, 100}},
     precipitation : {<<>>} \cup {<<r>> : r \in 0..MaxPrecip},
     visibility_km : {<<>>} \cup {<<v>> : v \in {0, 8, 10, 24}}]

\* the mapping of a row at the end of getWeatherFromForecastTable, den = 10
getWeatherFromForecastTable(data) ==
    LET cloudCover == (IF data.cloud_cover = <<>> THEN 0
                       ELSE data.cloud_cover[1]) \div 10
        precipitation == (IF data.precipitation = <<>> THEN 0
                          ELSE data.precipitation[1]) * 10
        visKm == data.visibility_km
        fog == IF visKm # <<>> /\ visKm[1] < 10
               THEN Max(0, 10 - visKm[1]) ELSE 0
        w == [cloudCover |-> cloudCover, precipitation |-> precipitation,
              fog |-> fog, den |-> 10]
    IN [cloudCover |-> cloudCover,
        precipitation |-> precipitation,
        fog |-> fog,
        den |-> 10,
        extinctionCoeff |-> wsCalculateExtinctionCoefficient(w)]

\* (a * 9301) modulo m for a >= 0, in steps that stay within 32 bits
Times9301Mod(a, m) ==
    (((a * 93) % m) * 100 + a) % m

\* one step of the closure seededRandom returns: the new `value`.  The
\* JavaScript remainder takes the sign of the dividend value*9301 + 49297.
seededRandom(value) ==
    LET m == 233280
        mag == Abs(value)
    IN IF value >= 0 THEN (Times9301Mod(mag, m) + 49297) % m
       ELSE IF mag * 9301 <= 49297 THEN 49297 - mag * 9301
       ELSE -((Times9301Mod(mag, m) + m - 49297) % m)

\* generateMockWeather(lat, lon), lat and lon in 1/1000 degree,
\* den = 233280 * 100
generateMockWeather(lat, lon) ==
    LET seed == lat + lon
        v1 == seededRandom(seed)
        v2 == seededRandom(v1)
        v3 == seededRandom(v2)
        den == 233280 * 100
        isTropical == Abs(lat) < 23500
        isDesert == /\ Abs(lat) > 15000 /\ Abs(lat) < 35000
                    /\ Abs(lon) > 0 /\ Abs(lon) < 60000
        cloudCover == IF isTropical THEN v1 * 96
                      ELSE IF isDesert THEN v1 * 24 ELSE v1 * 80
        precipitation == IF isTropical THEN v2 * 1500
                         ELSE IF isDesert THEN v2 * 200 ELSE v2 * 1000
        fog == IF isTropical THEN v3 * 15
               ELSE IF isDesert THEN v3 * 3 ELSE v3 * 30
        w == [cloudCover |-> Min(den, cloudCover),
              precipitation |-> Min(25 * den, precipitation),
              fog |-> Min(den, fog),
              den |-> den]
    IN [cloudCover |-> w.cloudCover,
        precipitation |-> w.precipitation,
        fog |-> w.fog,
        den |-> den,
        extinctionCoeff |-> wsCalculateExtinctionCoefficient(w)]

\* latitudes and longitudes asked of the mock generator, in 1/1000 degree
MockLatitudes == {-60000, -30000, -10000, 0, 10000, 30000, 60000}
MockLongitudes == {-150000, -120000, -20000, 0, 20000, 50000, 120000}

\* getWeatherConditions finds a row for the grid cell and returns its mapping
CallGetWeatherFromForecastTable ==
    /\ service.op = "idle"
    /\ \E data \in ForecastRows :
          service' = [NoService EXCEPT
              !.op = "getWeatherFromForecastTable",
              !.data = data,
              !.weather = getWeatherFromForecastTable(data)]
    /\ UNCHANGED <<engineVars, atmos, yallop, host, crescent, grid, bulk, tooltip>>

\* getWeatherConditions finds no row, or the query fails: mock fallback
CallGenerateMockWeather ==
    /\ service.op = "idle"
    /\ \E lat \in MockLatitudes, lon \in MockLongitudes :
          service' = [NoService EXCEPT
              !.op = "generateMockWeather",
              !.lat = lat,
              !.lon = lon,
              !.weather = generateMockWeather(lat, lon)]
    /\ UNCHANGED <<engineVars, atmos, yallop, host, crescent, grid, bulk, tooltip>>

ReturnService ==
    /\ service.op # "idle"
    /\ service' = NoService
    /\ UNCHANGED <<engineVars, atmos, yallop, host, crescent, grid, bulk, tooltip>>

NextService ==
    \/ CallGetWeatherFromForecastTable
    \/ CallGenerateMockWeather
    \/ ReturnService

SpecService == Init /\ [][NextService]_vars

\* the record in the units of the scorer (fractions in tenths, mm/h)
EngineWeather(w) ==
    [cloudCover |-> w.cloudCover, precipitation |-> w.precipitation \div 10,
     fog |-> w.fog]

NonNegativeWeather(w) ==
    w.cloudCover >= 0 /\ w.precipitation >= 0 /\ w.fog >= 0

\* C17: the extinction coefficient is exactly 0.05 when cloudCover =
\* precipitation = fog = 0 and at least 0.05 for every non-negative weather,
\* in the scorer's calculateExtinctionCoefficient and in the weather
\* service's private copy, and the two return the same value for the same
\* weather.
C17_ExtinctionFloor ==
    (service.op # "idle" /\ NonNegativeWeather(service.weather)) =>
        LET w == service.weather
        IN /\ w.extinctionCoeff >= w.den \div 2
           /\ (w.cloudCover = 0 /\ w.precipitation = 0 /\ w.fog = 0)
                 => w.extinctionCoeff = w.den \div 2
           /\ service.op = "getWeatherFromForecastTable" =>
                 /\ calculateExtinctionCoefficient(EngineWeather(w))
                       = w.extinctionCoeff
                 /\ calculateExtinctionCoefficient(EngineWeather(w)) >= 5
                 /\ (w.cloudCover = 0 /\ w.precipitation = 0 /\ w.fog = 0)
                       => calculateExtinctionCoefficient(EngineWeather(w)) = 5

\* a forecast row of clear, dry air with 24 km visibility
C17_Witness ==
    /\ service.op = "getWeatherFromForecastTable"
    /\ service.data = [cloud_cover |-> <<0>>, precipitation |-> <<0>>,
                       visibility_km |-> <<24>>]
    /\ service.weather.extinctionCoeff = 5
    /\ service.weather.den = 10

\* C18: every WeatherConditions record the weather service hands out, from
\* a forecast row or from the mock generator at any latitude and longitude,
\* has cloudCover and fog in [0, 1], precipitation >= 0 and
\* extinctionCoeff >= 0.05.
C18_ServiceWeatherInvariant ==
    service.op # "idle" =>
        LET w == service.weather
        IN /\ 0 <= w.cloudCover /\ w.cloudCover <= w.den
           /\ 0 <= w.fog /\ w.fog <= w.den
           /\ w.precipitation >= 0
           /\ w.extinctionCoeff >= w.den \div 2

----------------------------------------------------------------------------
(***************************************************************************)
(* weatherService.ts: the Yallop crescent classifier.                      *)
(*   times (Date.getTime())            milliseconds, <<>> for none/NaN     *)
(*   moonAltDeg, sunAltDeg, ARCV       1/100000 degree                     *)
(*   Wprime                            1/10 arcminute                      *)
(*   q and minQ                        1/100000000                         *)
(* SunCalc's rise/set times and the positions it returns at the best time  *)
(* are inputs; Wprime, which the code derives from them by trigonometry,   *)
(* is given with the positions.                                            *)
(***************************************************************************)

ZONE_THRESHOLDS ==
    << [zone |-> "A", minQ |-> 21600000, label |-> "Easily visible"],
       [zone |-> "B", minQ |-> -1400000,
        label |-> "Visible in perfect conditions"],
       [zone |-> "C", minQ |-> -16000000, label |-> "May need binoculars"],
       [zone |-> "D", minQ |-> -23200000, label |-> "Needs optical aid"],
       [zone |-> "E", minQ |-> -29300000,
        label |-> "Not visible with telescope"] >>

\* variant: the early-exit result reports q = 0
ZONE_F_ZeroQ == [q |-> 0, zone |-> "F", label |-> "Not visible"]

ZONE_F == [q |-> -100000000, zone |-> "F", label |-> "Not visible"]

\* (ARCV - (11.8371 - 6.3226 W' + 0.7319 W'^2 - 0.1018 W'^3)) / 10
YallopQValue(ARCV, Wprime) ==
    ARCV * 100 - (118371000 - 6322600 * Wprime
                  + 73190 * Wprime * Wprime
                  - 1018 * Wprime * Wprime * Wprime)

\* variant: a q equal to a threshold falls in the better zone (>= for >)
computeQInclusive(pos) ==
    LET q == YallopQValue(pos.moonAltDeg - pos.sunAltDeg, pos.Wprime)
        hits == {i \in 1..Len(ZONE_THRESHOLDS) : q >= ZONE_THRESHOLDS[i].minQ}
    IN IF hits = {} THEN [q |-> q, zone |-> "F", label |-> "Not visible"]
       ELSE LET first == CHOOSE i \in hits : \A j \in hits : i <= j
            IN [q |-> q, zone |-> ZONE_THRESHOLDS[first].zone,
                label |-> ZONE_THRESHOLDS[first].label]

\* computeQ for the positions SunCalc returns at bestTime: the first
\* threshold that q exceeds names the zone
computeQ(pos) ==
    LET ARCV == pos.moonAltDeg - pos.sunAltDeg
        q == YallopQValue(ARCV, pos.Wprime)
        hits == {i \in 1..Len(ZONE_THRESHOLDS) : q > ZONE_THRESHOLDS[i].minQ}
    IN IF hits = {} THEN [q |-> q, zone |-> "F", label |-> "Not visible"]
       ELSE LET first == CHOOSE i \in hits : \A j \in hits : i <= j
            IN [q |-> q, zone |-> ZONE_THRESHOLDS[first].zone,
                label |-> ZONE_THRESHOLDS[first].label]

\* variant: a Moon that sets exactly at sunset is still evaluated
BestTimeAtSunset(t) ==
    IF t.sunset = <<>> THEN <<>>
    ELSE IF t.moonset = <<>>
         THEN (IF t.alwaysUp THEN <<t.sunset[1] + 30 * 60000>> ELSE <<>>)
    ELSE IF t.moonset[1] < t.sunset[1] THEN <<>>
    ELSE <<t.sunset[1] + (4 * (t.moonset[1] - t.sunset[1])) \div 9>>

\* variant: the Moon that never sets is evaluated at sunset itself
BestTimeNoHalfHour(t) ==
    IF t.sunset = <<>> THEN <<>>
    ELSE IF t.moonset = <<>>
         THEN (IF t.alwaysUp THEN <<t.sunset[1]>> ELSE <<>>)
    ELSE IF t.moonset[1] <= t.sunset[1] THEN <<>>
    ELSE <<t.sunset[1] + (4 * (t.moonset[1] - t.sunset[1])) \div 9>>

\* the Date calculateYallopQ passes to computeQ, <<>> when it returns ZONE_F
\* without computing; new Date(x) drops the fraction of a millisecond
BestTime(t) ==
    IF t.sunset = <<>> THEN <<>>
    ELSE IF t.moonset = <<>>
         THEN (IF t.alwaysUp THEN <<t.sunset[1] + 30 * 60000>> ELSE <<>>)
    ELSE IF t.moonset[1] <= t.sunset[1] THEN <<>>
    ELSE LET lag == t.moonset[1] - t.sunset[1]
         IN <<t.sunset[1] + (4 * lag) \div 9>>

calculateYallopQ(t, pos) ==
    IF BestTime(t) = <<>> THEN ZONE_F ELSE computeQ(pos)

\* what SunCalc.getTimes / getMoonTimes return for (date, lat, lon): no
\* sunset; a sunset at 18:00 without a moonset, the Moon always up or not;
\* a sunset at 18:00 and a moonset before, at or after it
MoonsetLags == {-3600000, -1, 0, 1, 2, 3, 9, 10, 2700000}
YallopTimes ==
    {[sunset |-> <<>>, moonset |-> <<>>, alwaysUp |-> FALSE]}
    \cup {[sunset |-> <<18 * 3600000>>, moonset |-> <<>>, alwaysUp |-> u] :
             u \in BOOLEAN}
    \cup {[sunset |-> <<18 * 3600000>>,
           moonset |-> <<18 * 3600000 + lag>>,
           alwaysUp |-> FALSE] : lag \in MoonsetLags}

\* arcs of vision that put q on and just above each threshold for a
\* crescent 0.5' wide, and arcs far from every threshold
ArcsOfVision ==
    {1100605, 1100606, 870605, 870606, 724605, 724606, 652605, 652606,
     591605, 591606, 1200000, 0, -500000}
YallopPositions ==
    [moonAltDeg : {a - 300000 : a \in ArcsOfVision},
     sunAltDeg : {-300000, -200000},
     Wprime : {5, 20}]

CallCalculateYallopQ ==
    /\ yallop.op = "idle"
    /\ \E t \in YallopTimes :
       \E pos \in (IF BestTime(t) = <<>> THEN {NoYallop.positions}
                   ELSE YallopPositions) :
          yallop' = [op |-> "calculateYallopQ",
                     times |-> t,
                     positions |-> pos,
                     bestTime |-> BestTime(t),
                     result |-> calculateYallopQ(t, pos),
                     previous |-> yallop.previous]
    /\ UNCHANGED <<engineVars, atmos, service, host, crescent, grid, bulk, tooltip>>

\* the result is kept, to be compared with the next one
ReturnYallop ==
    /\ yallop.op # "idle"
    /\ yallop' = [NoYallop EXCEPT !.previous = <<yallop.result>>]
    /\ UNCHANGED <<engineVars, atmos, service, host, crescent, grid, bulk, tooltip>>

NextYallop ==
    \/ CallCalculateYallopQ
    \/ ReturnYallop

SpecYallop == Init /\ [][NextYallop]_vars

\* A best, F worst
ZoneRank(zone) ==
    CASE zone = "A" -> 1 [] zone = "B" -> 2 [] zone = "C" -> 3
      [] zone = "D" -> 4 [] zone = "E" -> 5 [] zone = "F" -> 6

BetterOrEqual(r1, r2) ==
    r1.q > r2.q => ZoneRank(r1.zone) <= ZoneRank(r2.zone)

\* C13: for any two results of the classifier with q1 > q2 the zone of q1
\* is equal to or better than the zone of q2 (A best), the early-exit
\* zone-F results with their reported q included.
C13_ZoneOrdering ==
    (yallop.op = "calculateYallopQ" /\ yallop.previous # <<>>) =>
        /\ BetterOrEqual(yallop.result, yallop.previous[1])
        /\ BetterOrEqual(yallop.previous[1], yallop.result)

\* an early-exit F after a computed F whose q is below -1
C13_Witness ==
    /\ yallop.op = "calculateYallopQ"
    /\ yallop.previous # <<>>
    /\ yallop.bestTime = <<>>
    /\ yallop.result.zone = "F"
    /\ yallop.previous[1].zone = "F"
    /\ yallop.previous[1].q < yallop.result.q

\* C14: a computed q gets zone A iff q > 0.216, B iff -0.014 < q <= 0.216,
\* C iff -0.160 < q <= -0.014, D iff -0.232 < q <= -0.160, E iff
\* -0.293 < q <= -0.232 and F iff q <= -0.293, and the label is the one
\* paired with the zone.
C14_ZoneByThresholds ==
    (yallop.op = "calculateYallopQ" /\ yallop.bestTime # <<>>) =>
        LET q == yallop.result.q
            zone == yallop.result.zone
        IN /\ zone \in {"A", "B", "C", "D", "E", "F"}
           /\ (zone = "A") = (q > 21600000)
           /\ (zone = "B") = (-1400000 < q /\ q <= 21600000)
           /\ (zone = "C") = (-16000000 < q /\ q <= -1400000)
           /\ (zone = "D") = (-23200000 < q /\ q <= -16000000)
           /\ (zone = "E") = (-29300000 < q /\ q <= -23200000)
           /\ (zone = "F") = (q <= -29300000)
           /\ yallop.result.label =
                 CASE zone = "A" -> "Easily visible"
                   [] zone = "B" -> "Visible in perfect conditions"
                   [] zone = "C" -> "May need binoculars"
                   [] zone = "D" -> "Needs optical aid"
                   [] zone = "E" -> "Not visible with telescope"
                   [] zone = "F" -> "Not visible"

\* q exactly 0.216: zone B, not A
C14_Witness ==
    /\ yallop.op = "calculateYallopQ"
    /\ yallop.bestTime # <<>>
    /\ yallop.result.q = 21600000
    /\ yallop.result.zone = "B"

\* no best time: no sunset, no moonset without a Moon that is always up,
\* or a moonset at or before sunset
NoMeaningfulBestTime(t) ==
    \/ t.sunset = <<>>
    \/ (t.moonset = <<>> /\ ~t.alwaysUp)
    \/ (t.sunset # <<>> /\ t.moonset # <<>> /\ t.moonset[1] <= t.sunset[1])

\* C15: calculateYallopQ always returns a result, and it is the zone-F
\* result when there is no valid sunset, when moonset is undefined and the
\* Moon is not continuously up, and when moonset is at or before sunset.
C15_ZoneFWithoutBestTime ==
    yallop.op = "calculateYallopQ" =>
        /\ yallop.result.zone \in {"A", "B", "C", "D", "E", "F"}
        /\ NoMeaningfulBestTime(yallop.times) =>
              /\ yallop.result.zone = "F"
              /\ yallop.result.label = "Not visible"
              /\ yallop.bestTime = <<>>

\* moonset at the very millisecond of sunset
C15_Witness ==
    /\ yallop.op = "calculateYallopQ"
    /\ yallop.times.sunset # <<>>
    /\ yallop.times.moonset = yallop.times.sunset
    /\ yallop.result.zone = "F"

\* sunset and moonset both exist and moonset is after sunset
MoonsetAfterSunset(t) ==
    /\ t.sunset # <<>>
    /\ t.moonset # <<>>
    /\ t.moonset[1] > t.sunset[1]

\* the Moon never sets on that day
MoonAlwaysUp(t) ==
    t.sunset # <<>> /\ t.moonset = <<>> /\ t.alwaysUp

\* C16 as stated: with moonset after sunset q is evaluated at
\* bestTime = sunset + 4/9 * (moonset - sunset), to the millisecond of a
\* Date, which lies strictly between sunset and moonset; with the Moon
\* always up it is evaluated at sunset + 30 minutes.
C16_BestTimeStrictlyBetween ==
    yallop.op = "calculateYallopQ" =>
        /\ MoonsetAfterSunset(yallop.times) =>
              LET sunset == yallop.times.sunset[1]
                  moonset == yallop.times.moonset[1]
              IN /\ yallop.bestTime # <<>>
                 /\ 9 * (yallop.bestTime[1] - sunset) <= 4 * (moonset - sunset)
                 /\ 4 * (moonset - sunset) < 9 * (yallop.bestTime[1] - sunset + 1)
                 /\ sunset < yallop.bestTime[1]
                 /\ yallop.bestTime[1] < moonset
        /\ MoonAlwaysUp(yallop.times) =>
              yallop.bestTime = <<yallop.times.sunset[1] + 1800000>>

\* C16 (amended): with moonset after sunset q is evaluated at bestTime =
\* sunset + 4/9 * (moonset - sunset) cut to a whole millisecond, which is at
\* or after sunset and strictly before moonset, and strictly after sunset
\* once moonset is 3 ms or more after sunset; with the Moon always up q is
\* evaluated at sunset + 30 minutes.
C16_BestTimeInLagWindow ==
    yallop.op = "calculateYallopQ" =>
        /\ MoonsetAfterSunset(yallop.times) =>
              LET sunset == yallop.times.sunset[1]
                  moonset == yallop.times.moonset[1]
              IN /\ yallop.bestTime # <<>>
                 /\ 9 * (yallop.bestTime[1] - sunset) <= 4 * (moonset - sunset)
                 /\ 4 * (moonset - sunset) < 9 * (yallop.bestTime[1] - sunset + 1)
                 /\ sunset <= yallop.bestTime[1]
                 /\ yallop.bestTime[1] < moonset
                 /\ moonset - sunset >= 3 => sunset < yallop.bestTime[1]
        /\ MoonAlwaysUp(yallop.times) =>
              yallop.bestTime = <<yallop.times.sunset[1] + 1800000>>

\* moonset 45 minutes after sunset: q is taken 20 minutes after sunset
C16_Witness ==
    /\ yallop.op = "calculateYallopQ"
    /\ MoonsetAfterSunset(yallop.times)
    /\ yallop.times.moonset[1] - yallop.times.sunset[1] = 2700000
    /\ yallop.bestTime = <<yallop.times.sunset[1] + 1200000>>

----------------------------------------------------------------------------
\* the weighted sum of the call in progress, before the ramp, in 1/90000
CallRawScore ==
    rawScore(weatherFactor(weather), timeFactor(object, sky.sunAlt),
             altitudeFactor(objectAltitudeDeg(sky, object)),
             brightnessFactor(sky, object))

\* C23: the horizon ramp is (alt + 2)/12 in [0, 1) for altitude in [-2, 10)
\* and 1 from 10 degrees up, so the score at altitude exactly -2 is 0, as
\* it is just below under the hard gate, and the ramp of the band reaches
\* the value 1 of the upper branch at 10 degrees.
C23_HorizonRampContinuous ==
    LET alt == objectAltitudeDeg(sky, object)
    IN (CelestialCall /\ timeFactor(object, sky.sunAlt) > 0) =>
          /\ alt <= -2 => score = 0
          /\ (-2 <= alt /\ alt < 10) =>
                /\ score = CallRawScore * (alt + 2)
                /\ score < CallRawScore * 12
          /\ alt >= 10 => score = CallRawScore * 12
          /\ alt = 10 => score = CallRawScore * (alt + 2)

\* the full Moon exactly 2 degrees below the horizon on a clear night
C23_Witness ==
    /\ op = "calculateCelestialVisibilityScore"
    /\ object.id = "moon"
    /\ sky.moonAlt = -2
    /\ sky.sunAlt = -90
    /\ sky.moonFraction = 10
    /\ ClearSky
    /\ CallRawScore > 0
    /\ score = 0

\* C25: the breakdown agrees with the scorer: for the same sky, weather and
\* object breakdown.score is the scorer's result and
\* breakdown.objectAltitude is the altitude of the resolution branch the
\* scorer used, so a positive breakdown.score implies
\* breakdown.objectAltitude >= -2.
C25_BreakdownAgreesWithScorer ==
    op = "getCelestialVisibilityBreakdown" =>
        /\ breakdown.score = score
        /\ breakdown.score
              = calculateCelestialVisibilityScore(sky, weather, object)
        /\ breakdown.objectAltitude = objectAltitudeDeg(sky, object)
        /\ breakdown.score > 0 => breakdown.objectAltitude >= -2

\* Titan with ra/dec, high in the sky while the Moon is below the horizon
C25_Witness ==
    /\ op = "getCelestialVisibilityBreakdown"
    /\ object.id = "titan"
    /\ HasRaDec(object)
    /\ ~RaFalsy(object)
    /\ sky.moonAlt = -3
    /\ breakdown.objectAltitude = 45
    /\ breakdown.score > 0

(***************************************************************************)
(* The surface scorer on a host.  currentTime is a Date, an instant; the   *)
(* model names it by its hour of day in UTC.  Date.getHours() returns the  *)
(* hour of the instant in the time zone the host is configured with, an    *)
(* ambient setting that is no argument of the call.                        *)
(***************************************************************************)

\* UTC offsets of the host, whole hours
HostTimeZones == {-5, 0, 9}

\* instants passed as currentTime, by their hour of day in UTC
Instants == {3, 12, 20, 21}

\* targets of the calls made on the host: on the ground, 0.1 and 0.5 degrees
\* of arc from the observer
HostTargets == { Position(0, lon, 0) : lon \in {1, 5} }

\* currentTime.getHours() on a host at the given UTC offset
getHours(instant, timeZone) == (instant + timeZone + 24) % 24

\* calculateVisibilityScore(observerPos, targetPos, weather, currentTime)
\* as it runs on a host
calculateVisibilityScoreOnHost(call, timeZone) ==
    calculateVisibilityScore(call.observerPos, call.targetPos, call.weather,
                             getHours(call.instant, timeZone))

\* the host's time zone is reconfigured between calls
SetHostTimeZone ==
    /\ host.op = "idle"
    /\ \E tz \in HostTimeZones :
          /\ tz # host.timeZone
          /\ host' = [host EXCEPT !.timeZone = tz]
    /\ UNCHANGED <<engineVars, atmos, service, yallop, crescent, grid, bulk, tooltip>>

CallCalculateVisibilityScoreOnHost ==
    /\ host.op = "idle"
    /\ \E t \in Instants, obs \in Observers, tgt \in HostTargets,
          w \in Weathers :
          /\ w.precipitation = 0
          /\ w.fog = 0
          /\ LET call == [instant |-> t, observerPos |-> obs,
                          targetPos |-> tgt, weather |-> w]
             IN host' = [host EXCEPT
                    !.op = "calculateVisibilityScore",
                    !.call = call,
                    !.score = calculateVisibilityScoreOnHost(call,
                                                            host.timeZone)]
    /\ UNCHANGED <<engineVars, atmos, service, yallop, crescent, grid, bulk, tooltip>>

\* the call returns; the host keeps no state of it (previous is the
\* history of the last returned call, for comparison with the next)
ReturnHost ==
    /\ host.op # "idle"
    /\ host' = [host EXCEPT
           !.op = "idle", !.call = NoHostCall, !.score = 0,
           !.previous = <<[call |-> host.call, score |-> host.score]>>]
    /\ UNCHANGED <<engineVars, atmos, service, yallop, crescent, grid, bulk, tooltip>>

NextHost ==
    \/ SetHostTimeZone
    \/ CallCalculateVisibilityScoreOnHost
    \/ ReturnHost

SpecHost == Init /\ [][NextHost]_vars

CACHE_MAX_SIZE == 3

\* Math.pow(2, n)
Pow2(n) == 2 ^ n

\* Math.ceil(a / b) * b and Math.floor(a / b) * b for b > 0
FloorTo(a, b) == (a \div b) * b
CeilTo(a, b) == (-((-a) \div b)) * b

\* Math.round(x * 10) / 10 as a number of tenths of a degree
RoundToTenth(x) == (x + 500000) \div 1000000

\* "roundedLat,roundedLon,year-month-day"
getCacheKey(lat, lon, date) ==
    <<RoundToTenth(lat), RoundToTenth(lon), date.day>>

\* baseSize / Math.pow(2, Math.max(0, zoom - 4)) with baseSize = 5 degrees
cellSize(zoom) == 50000000 \div Pow2(Max(0, zoom - 4))

\* a 256-pixel tile of zoom level z spans 360 / 2^z degrees
TileSpan(zoom) == 225000000 \div Pow2(zoom - 4)

\* the cell centres createTile visits for the tile whose south-west corner
\* is (row, col) tile spans from latitude 0, longitude 0: latitude in the
\* outer loop, longitude in the inner loop
TileCells(tile) ==
    LET size == cellSize(tile.zoom)
        span == TileSpan(tile.zoom)
        latStart == FloorTo(tile.row * span, size)
        latEnd == CeilTo((tile.row + 1) * span, size)
        lngStart == FloorTo(tile.col * span, size)
        lngEnd == CeilTo((tile.col + 1) * span, size)
        rows == (latEnd - latStart) \div size
        cols == (lngEnd - lngStart) \div size
    IN [i \in 1..(rows * cols) |->
           [lat |-> latStart + ((i - 1) \div cols) * size + size \div 2,
            lng |-> lngStart + ((i - 1) % cols) * size + size \div 2]]

\* the tiles Leaflet asks for
CrescentTiles == [zoom : {9, 10}, col : {0, 1}, row : {0}]

\* what SunCalc returns at the best time of the layer's date: sunset at
\* 18:00, moonset 45 minutes later, a crescent 0.5' wide whose arc of vision
\* puts q just above the A threshold west of the date's terminator meridian
\* and on the threshold (zone B) east of it
CrescentTimes ==
    [sunset |-> <<18 * 3600000>>, moonset |-> <<18 * 3600000 + 2700000>>,
     alwaysUp |-> FALSE]
CrescentPositions(lat, lon, date) ==
    [moonAltDeg |-> (IF lon < date.terminator THEN 1100606 ELSE 1100605)
                    - 300000,
     sunAltDeg |-> -300000,
     Wprime |-> 5]

\* the dates the layer is created on: calendar day and the meridian of the
\* A/B boundary at that instant (0.1, 0.4 and 30 degrees east)
CrescentDates ==
    [day : {1, 2}, terminator : {1000000, 4000000, 300000000}]

\* calculateYallopQ(cellCenterLat, cellCenterLng, date)
calculateYallopQAt(lat, lon, date) ==
    calculateYallopQ(CrescentTimes, CrescentPositions(lat, lon, date))

\* zoneCache.get(cacheKey): <<>> for undefined
zoneCacheGet(cache, key) ==
    LET hits == {i \in 1..Len(cache) : cache[i].key = key}
    IN IF hits = {} THEN <<>>
       ELSE <<cache[CHOOSE i \in hits : TRUE].value>>

\* variant: the insert never evicts
zoneCacheInsertNoEviction(cache, key, result) ==
    Append(cache, [key |-> key, value |-> result])

\* lines 101-105: a full cache loses its oldest entry, then the new entry
\* is set
zoneCacheInsert(cache, key, result) ==
    LET room == IF Len(cache) >= CACHE_MAX_SIZE THEN Tail(cache) ELSE cache
    IN Append(room, [key |-> key, value |-> result])

\* the component's effect: zoneCache.clear(), setDate(new Date()), addTo(map)
MountCrescentLayer ==
    /\ crescent.op = "idle"
    /\ ~crescent.mounted
    /\ \E d \in CrescentDates :
          crescent' = [NoCrescent EXCEPT !.mounted = TRUE, !.date = d]
    /\ UNCHANGED <<engineVars, atmos, service, yallop, host, grid, bulk, tooltip>>

\* the effect's cleanup: map.removeLayer(gridLayer); zoneCache is kept
UnmountCrescentLayer ==
    /\ crescent.op = "idle"
    /\ crescent.mounted
    /\ crescent' = [crescent EXCEPT !.mounted = FALSE, !.painted = <<>>]
    /\ UNCHANGED <<engineVars, atmos, service, yallop, host, grid, bulk, tooltip>>

\* createTile(coords) up to the loops
CreateTile ==
    /\ crescent.op = "idle"
    /\ crescent.mounted
    /\ \E tile \in CrescentTiles :
          crescent' = [crescent EXCEPT !.op = "createTile",
                                       !.cells = TileCells(tile),
                                       !.painted = <<>>]
    /\ UNCHANGED <<engineVars, atmos, service, yallop, host, grid, bulk, tooltip>>

\* one iteration of the loops of createTile (lines 86-131)
PaintCell ==
    /\ crescent.op = "createTile"
    /\ crescent.cells # <<>>
    /\ LET cell == Head(crescent.cells)
           cacheKey == getCacheKey(cell.lat, cell.lng, crescent.date)
           cached == zoneCacheGet(crescent.zoneCache, cacheKey)
           yallop_ == calculateYallopQAt(cell.lat, cell.lng, crescent.date)
           result == IF cached # <<>> THEN cached[1]
                     ELSE [zone |-> yallop_.zone, label |-> yallop_.label]
       IN IF cell.lat < -900000000 \/ cell.lat > 900000000
          THEN crescent' = [crescent EXCEPT !.cells = Tail(crescent.cells)]
          ELSE crescent' = [crescent EXCEPT
                   !.cells = Tail(crescent.cells),
                   !.zoneCache =
                       IF cached # <<>> THEN crescent.zoneCache
                       ELSE zoneCacheInsert(crescent.zoneCache, cacheKey,
                                            result),
                   !.painted = <<[lat |-> cell.lat, lng |-> cell.lng,
                                  key |-> cacheKey,
                                  fromCache |-> cached # <<>>,
                                  zone |-> result.zone]>>]
    /\ UNCHANGED <<engineVars, atmos, service, yallop, host, grid, bulk, tooltip>>

\* the loops end and createTile returns the tile
ReturnTile ==
    /\ crescent.op = "createTile"
    /\ crescent.cells = <<>>
    /\ crescent' = [crescent EXCEPT !.op = "idle"]
    /\ UNCHANGED <<engineVars, atmos, service, yallop, host, grid, bulk, tooltip>>

NextCrescent ==
    \/ MountCrescentLayer
    \/ UnmountCrescentLayer
    \/ CreateTile
    \/ PaintCell
    \/ ReturnTile

SpecCrescent == Init /\ [][NextCrescent]_vars

\* C21: zoneCache is keyed by the cell centre's latitude and longitude
\* rounded to 0.1 degree plus the calendar day, it never holds more than
\* CACHE_MAX_SIZE entries, and an insert into a full cache evicts exactly
\* one entry, the oldest
C21_ZoneCacheBounded ==
    /\ [](/\ Len(crescent.zoneCache) <= CACHE_MAX_SIZE
          /\ \A i, j \in 1..Len(crescent.zoneCache) :
                crescent.zoneCache[i].key = crescent.zoneCache[j].key
                    => i = j
          /\ crescent.painted # <<>> =>
                LET p == crescent.painted[1]
                IN /\ p.lat - 500000 < p.key[1] * 1000000
                   /\ p.key[1] * 1000000 <= p.lat + 500000
                   /\ p.lng - 500000 < p.key[2] * 1000000
                   /\ p.key[2] * 1000000 <= p.lng + 500000
                   /\ p.key[3] = crescent.date.day
                   /\ \E i \in 1..Len(crescent.zoneCache) :
                         crescent.zoneCache[i].key = p.key)
    /\ [][(/\ Len(crescent.zoneCache) = CACHE_MAX_SIZE
           /\ crescent'.zoneCache # crescent.zoneCache
           /\ crescent'.zoneCache # <<>>)
          => /\ Len(crescent'.zoneCache) = CACHE_MAX_SIZE
             /\ Tail(crescent.zoneCache) =
                   SubSeq(crescent'.zoneCache, 1, CACHE_MAX_SIZE - 1)]_vars

\* a whole tile has been drawn, its last cell was computed and inserted
\* into the full cache, and the tile's first cell is no longer cached
C21_Witness ==
    /\ crescent.op = "createTile"
    /\ crescent.cells = <<>>
    /\ crescent.painted # <<>>
    /\ ~crescent.painted[1].fromCache
    /\ Len(crescent.zoneCache) = CACHE_MAX_SIZE
    /\ crescent.zoneCache[CACHE_MAX_SIZE].key = crescent.painted[1].key
    /\ zoneCacheGet(crescent.zoneCache,
                    <<0, 0, crescent.date.day>>) = <<>>

\* C29: the zone painted for a cell equals calculateYallopQ at that cell's
\* own centre for the layer's date, whether computed or served from
\* zoneCache
C29_PaintedZoneIsZoneAtCentre ==
    crescent.painted # <<>> =>
        LET p == crescent.painted[1]
        IN p.zone = calculateYallopQAt(p.lat, p.lng, crescent.date).zone

(***************************************************************************)
(* The visibility grid layer (HexGridLayer).  Cell centres are in          *)
(* hundredths of a degree, time in 10-minute buckets, scores are           *)
(* numerators over CelestialDen.  A Map is a sequence of entries in        *)
(* insertion order (visibilityCache) or a function from its keys (the      *)
(* bulk weather map).  Leaflet calls createTile for the tiles in view      *)
(* after addTo and redraw and whenever the map is panned or zoomed; the    *)
(* model draws one cell at a time, any sampled cell, while a layer is on   *)
(* the map.                                                                *)
(***************************************************************************)

\* capacity of visibilityCache (10000 in the source, line 17), scaled down
VISIBILITY_CACHE_MAX_SIZE == 2

\* last 10-minute bucket the clock reaches
MaxBucket == 1

\* centres of the zoom-4 cells (2.5 degrees) of one row
GridCells == { [lat |-> 125, lng |-> l] : l \in {125, 375, 625, 875} }

\* Math.round(x / GRID_RESOLUTION) * GRID_RESOLUTION, whole degrees
RoundToGrid(x) == ((x + 250) \div 500) * 5

\* the maps getAllWeatherFromCache resolves to: no rows, the rows of the
\* grid point (0, 0), and the rows of the grid points (0, 0) to (0, 10)
BulkWeatherMaps ==
    { [k \in keys |-> [cloudCover |-> 5, precipitation |-> 0, fog |-> 0]] :
          keys \in { {}, {<<0, 0>>}, {<<0, 0>>, <<0, 5>>, <<0, 10>>} } }

\* getWeatherFromBulkCache(lat, lon, cache): <<>> for null
getWeatherFromBulkCache(lat, lon, cache) ==
    LET key == <<RoundToGrid(lat), RoundToGrid(lon)>>
    IN IF key \in DOMAIN cache THEN <<cache[key]>> ELSE <<>>

\* "objectId,roundedLat,roundedLon,timeMinute"; centres and times are
\* already whole hundredths and buckets
getGridCacheKey(lat, lon, time, objectId) == <<objectId, lat, lon, time>>

\* the sky of the sampled cells: the Moon 45 degrees up, full, at night
GridSky == [moonAlt |-> 45, sunAlt |-> -90, raDecAlt |-> 0, moonFraction |-> 10]

\* the "no weather data" entry, -0.5
Placeholder == -(CelestialDen \div 2)

\* getCachedScore(lat, lon, time, weatherCache, object) on visibilityCache:
\* the returned { score, hasRealWeather } and the cache it leaves
getCachedScore(lat, lon, time, weatherCache, obj, cache) ==
    LET key == getGridCacheKey(lat, lon, time, ObjectId(obj))
        hits == {i \in 1..Len(cache) : cache[i].key = key}
        weather_ == getWeatherFromBulkCache(lat, lon, weatherCache)
    IN IF hits # {}
       THEN LET cached == cache[CHOOSE i \in hits : TRUE].value
            IN [score |-> Abs(cached),
                hasRealWeather |-> cached >= 0, cache |-> cache]
       ELSE IF weather_ = <<>>
       THEN [score |-> -Placeholder, hasRealWeather |-> FALSE,
             cache |-> Append(cache, [key |-> key, value |-> Placeholder])]
       ELSE LET score_ == calculateCelestialVisibilityScore(GridSky,
                                                           weather_[1], obj)
                room == IF Len(cache) >= VISIBILITY_CACHE_MAX_SIZE
                        THEN Tail(cache) ELSE cache
            IN [score |-> score_, hasRealWeather |-> TRUE,
                cache |-> Append(room, [key |-> key, value |-> score_])]

\* the layer lifecycle effect (lines 205-242) for the selected object: the
\* previous layer is removed; for an object a new layer is created
LayerLifecycle(g, obj) ==
    IF obj.isNull THEN [g EXCEPT !.layer = <<>>]
    ELSE [g EXCEPT !.visibilityCache = <<>>,
                   !.layer = <<[weatherCache |-> g.weatherCache,
                                currentTime |-> g.now,
                                selectedObject |-> obj]>>]

\* first render of HexGridLayer: the initial load starts, timeRef holds the
\* current bucket, the lifecycle effect runs
MountHexGridLayer ==
    /\ ~grid.mounted
    /\ grid' = LayerLifecycle([grid EXCEPT !.mounted = TRUE,
                                           !.loadPending = TRUE,
                                           !.timeRef = grid.now,
                                           !.drawn = <<>>],
                              grid.selectedObject)
    /\ UNCHANGED <<engineVars, atmos, service, yallop, host, crescent, bulk, tooltip>>

\* the store's setSelectedObject; a rendered component runs the lifecycle
\* effect
SetSelectedObject ==
    /\ \E obj \in {NullObject, Object("moon", "moon", <<>>, <<>>, <<>>)} :
          /\ obj # grid.selectedObject
          /\ grid' = IF grid.mounted
                     THEN LayerLifecycle([grid EXCEPT !.selectedObject = obj,
                                                      !.drawn = <<>>], obj)
                     ELSE [grid EXCEPT !.selectedObject = obj]
    /\ UNCHANGED <<engineVars, atmos, service, yallop, host, crescent, bulk, tooltip>>

\* the initial getAllWeatherFromCache() resolves (lines 169-171):
\* setWeatherCache(cache); the sync effect (lines 245-250) hands the map to
\* an existing layer and redraws
InitialWeatherLoaded ==
    /\ grid.loadPending
    /\ \E cache \in BulkWeatherMaps :
          grid' = [grid EXCEPT
              !.loadPending = FALSE,
              !.weatherCache = cache,
              !.layer = IF grid.layer = <<>> THEN <<>>
                        ELSE <<[grid.layer[1] EXCEPT !.weatherCache = cache]>>,
              !.drawn = <<>>]
    /\ UNCHANGED <<engineVars, atmos, service, yallop, host, crescent, bulk, tooltip>>

\* the 5-minute refresh resolves (lines 173-182)
PeriodicRefresh ==
    /\ grid.mounted
    /\ ~grid.loadPending
    /\ \E cache \in BulkWeatherMaps :
          grid' = [grid EXCEPT
              !.weatherCache = cache,
              !.visibilityCache = <<>>,
              !.layer = IF grid.layer = <<>> THEN <<>>
                        ELSE <<[grid.layer[1] EXCEPT !.weatherCache = cache]>>,
              !.drawn = <<>>]
    /\ UNCHANGED <<engineVars, atmos, service, yallop, host, crescent, bulk, tooltip>>

\* the clock enters the next 10-minute bucket
NextBucket ==
    /\ grid.now < MaxBucket
    /\ grid' = [grid EXCEPT !.now = grid.now + 1]
    /\ UNCHANGED <<engineVars, atmos, service, yallop, host, crescent, bulk, tooltip>>

\* the 60-second timer finds a new bucket (lines 189-199)
BucketTimer ==
    /\ grid.mounted
    /\ grid.now # grid.timeRef
    /\ grid' = [grid EXCEPT
           !.timeRef = grid.now,
           !.visibilityCache = <<>>,
           !.layer = IF grid.layer = <<>> THEN <<>>
                     ELSE <<[grid.layer[1] EXCEPT !.currentTime = grid.now]>>,
           !.drawn = <<>>]
    /\ UNCHANGED <<engineVars, atmos, service, yallop, host, crescent, bulk, tooltip>>

\* createTile draws a cell (lines 122-128)
DrawCell ==
    /\ grid.layer # <<>>
    /\ \E cell \in GridCells :
          LET layer == grid.layer[1]
              r == getCachedScore(cell.lat, cell.lng, layer.currentTime,
                                  layer.weatherCache, layer.selectedObject,
                                  grid.visibilityCache)
          IN grid' = [grid EXCEPT
                 !.visibilityCache = r.cache,
                 !.drawn = <<[lat |-> cell.lat, lng |-> cell.lng,
                              weatherCache |-> layer.weatherCache,
                              object |-> layer.selectedObject,
                              score |-> r.score,
                              hasRealWeather |-> r.hasRealWeather]>>]
    /\ UNCHANGED <<engineVars, atmos, service, yallop, host, crescent, bulk, tooltip>>

NextGrid ==
    \/ MountHexGridLayer
    \/ SetSelectedObject
    \/ InitialWeatherLoaded
    \/ PeriodicRefresh
    \/ NextBucket
    \/ BucketTimer
    \/ DrawCell

SpecGrid == Init /\ [][NextGrid]_vars

\* C26: visibilityCache never holds more than CACHE_MAX_SIZE entries,
\* whether or not there is weather for the cells drawn
C26_VisibilityCacheBounded ==
    Len(grid.visibilityCache) <= VISIBILITY_CACHE_MAX_SIZE

\* C27: a cell drawn by a layer whose weather map holds the cell's weather
\* is drawn with the score computed from that weather, never with the
\* placeholder
C27_DeliveredWeatherIsDrawn ==
    grid.drawn # <<>> =>
        LET d == grid.drawn[1]
            weather_ == getWeatherFromBulkCache(d.lat, d.lng, d.weatherCache)
        IN weather_ # <<>> =>
              /\ d.hasRealWeather
              /\ d.score = calculateCelestialVisibilityScore(GridSky,
                                                            weather_[1],
                                                            d.object)

(***************************************************************************)
(* weatherService.ts: getAllWeatherFromCache and the bulk cache.           *)
(* Times are in milliseconds; the clock advances by whole minutes.  null   *)
(* is <<>> and a Map is a function from its "lat,lon" keys.  A call is in  *)
(* one of two positions: awaiting the query, or resolved with a map.       *)
(***************************************************************************)

BULK_CACHE_TTL_MS == 5 * 60 * 1000

\* last minute the clock reaches
MaxMinute == 7

\* rows of weather_forecast for the current hour
BulkRow(lat, lon, cloud) ==
    [lat_grid |-> lat, lon_grid |-> lon, cloud_cover |-> <<cloud>>,
     precipitation |-> <<0>>, visibility_km |-> <<>>]

\* what the awaited query produces: an exception, { error }, { data: null },
\* or { data: rows } with no row, one row or two rows
BulkResponses ==
    { [kind |-> "throws", data |-> <<>>],
      [kind |-> "error", data |-> <<>>],
      [kind |-> "null", data |-> <<>>],
      [kind |-> "rows", data |-> <<>>],
      [kind |-> "rows", data |-> <<BulkRow(0, 0, 50)>>],
      [kind |-> "rows", data |-> <<BulkRow(0, 0, 100), BulkRow(0, 5, 0)>>] }

\* lines 224-238: the map built from the rows
weatherMapOf(data) ==
    LET keys == { <<data[i].lat_grid, data[i].lon_grid>> : i \in 1..Len(data) }
        last(k) == CHOOSE i \in 1..Len(data) :
                      /\ <<data[i].lat_grid, data[i].lon_grid>> = k
                      /\ \A j \in 1..Len(data) :
                            <<data[j].lat_grid, data[j].lon_grid>> = k
                                => j <= i
    IN [k \in keys |-> getWeatherFromForecastTable(data[last(k)])]

\* new Map()
EmptyMap == [k \in {} |-> 0]

\* bulkWeatherCache || new Map()
CachedOrEmpty(b) ==
    IF b.bulkWeatherCache = <<>> THEN EmptyMap ELSE b.bulkWeatherCache[1]

\* the freshness test of line 204
BulkCacheFresh(b) ==
    /\ b.bulkWeatherCache # <<>>
    /\ b.now - b.bulkCacheTimestamp < BULK_CACHE_TTL_MS

\* lines 219-222 and 244-247: error, no data, or an exception
QueryFailed(b, response) ==
    [b EXCEPT !.op = "resolved", !.response = response.kind,
              !.returned = <<CachedOrEmpty(b)>>]

\* lines 224-243: the rows are mapped and cached
QuerySucceeded(b, response) ==
    LET weatherMap == weatherMapOf(response.data)
    IN [b EXCEPT !.op = "resolved", !.response = response.kind,
                 !.bulkWeatherCache = <<weatherMap>>,
                 !.bulkCacheTimestamp = b.now,
                 !.returned = <<weatherMap>>]

\* a minute passes
BulkTick ==
    /\ bulk.now < MaxMinute * 60000
    /\ bulk' = [bulk EXCEPT !.now = bulk.now + 60000]
    /\ UNCHANGED <<engineVars, atmos, service, yallop, host, crescent, grid, tooltip>>

\* getAllWeatherFromCache() up to its first await or early return
CallGetAllWeatherFromCache ==
    /\ bulk.op = "idle"
    /\ bulk' = IF BulkCacheFresh(bulk)
               THEN [bulk EXCEPT !.op = "resolved", !.response = "-",
                                 !.returned = <<bulk.bulkWeatherCache[1]>>]
               ELSE [bulk EXCEPT !.op = "awaiting", !.response = "-",
                                 !.returned = <<>>]
    /\ UNCHANGED <<engineVars, atmos, service, yallop, host, crescent, grid, tooltip>>

\* the awaited query settles and the function runs to its return
QueryCompletes ==
    /\ bulk.op = "awaiting"
    /\ \E response \in BulkResponses :
          bulk' = IF response.kind = "rows"
                  THEN QuerySucceeded(bulk, response)
                  ELSE QueryFailed(bulk, response)
    /\ UNCHANGED <<engineVars, atmos, service, yallop, host, crescent, grid, tooltip>>

\* the caller takes the resolved map
ReturnBulk ==
    /\ bulk.op = "resolved"
    /\ bulk' = [bulk EXCEPT !.op = "idle", !.response = "-",
                            !.returned = <<>>]
    /\ UNCHANGED <<engineVars, atmos, service, yallop, host, crescent, grid, tooltip>>

NextBulk ==
    \/ BulkTick
    \/ CallGetAllWeatherFromCache
    \/ QueryCompletes
    \/ ReturnBulk

SpecBulk == Init /\ [][NextBulk]_vars

\* the query of the call that has just resolved failed or returned no rows
FailedOrNoRows ==
    /\ bulk.op = "awaiting"
    /\ bulk'.op = "resolved"
    /\ \/ bulk'.response \in {"throws", "error", "null"}
       \/ bulk'.response = "rows" /\ bulk'.returned = <<EmptyMap>>

\* C24: a call made while the cache is younger than 5 minutes resolves with
\* the cached map without a query; a call whose query fails or returns no
\* rows resolves with the last fetched map (an empty map if there is none)
\* and leaves bulkWeatherCache and bulkCacheTimestamp as they were; every
\* call resolves with a map
C24_BulkCacheFallback ==
    [][/\ (bulk.op = "idle" /\ bulk'.op # "idle" /\ BulkCacheFresh(bulk))
            => /\ bulk'.op = "resolved"
               /\ bulk'.returned = bulk.bulkWeatherCache
               /\ bulk'.bulkWeatherCache = bulk.bulkWeatherCache
       /\ FailedOrNoRows
            => /\ bulk'.returned = <<CachedOrEmpty(bulk)>>
               /\ bulk'.bulkWeatherCache = bulk.bulkWeatherCache
               /\ bulk'.bulkCacheTimestamp = bulk.bulkCacheTimestamp
       /\ bulk'.op = "resolved" => bulk'.returned # <<>>]_vars

(***************************************************************************)
(* The hover tooltip (VisibilityTooltip) while an object is selected, so   *)
(* that its handlers are registered.  Pixels are client coordinates; time  *)
(* advances in steps of 500 ms.  timers is the browser's set of pending    *)
(* setTimeout timers, requests the set of calculateVisibilityAtPoint       *)
(* promises that have not resolved yet; they resolve in any order.         *)
(* mouseInside records the last mouse event: TRUE after a mousemove,       *)
(* FALSE after a mouseleave.                                               *)
(***************************************************************************)

\* most timers the browser holds at once
MaxTimers == 2

\* most weather requests in flight at once
MaxRequests == 2

\* the delay passed to setTimeout, ms
HoverDelay == 1500

\* the movement that restarts the hover, px
MoveThreshold == 15

\* one step of the clock, ms: a third of the delay
TickMs == HoverDelay \div 3

\* client positions of the mouse events
Pixels ==
    { [x |-> 0, y |-> 0], [x |-> 10, y |-> 0], [x |-> 0, y |-> 20],
      [x |-> 20, y |-> 20] }

\* lines 229-231
hasMoved(currentPixelRef, currentPixel) ==
    \/ currentPixelRef = <<>>
    \/ Abs(currentPixelRef[1].x - currentPixel.x) >= MoveThreshold
    \/ Abs(currentPixelRef[1].y - currentPixel.y) >= MoveThreshold

\* variant: the previous timer is left pending
clearTimeoutNoop(timers, timeoutRef) == timers

\* if (timeoutRef.current) clearTimeout(timeoutRef.current)
clearTimeout(timers, timeoutRef) ==
    IF timeoutRef = <<>> THEN timers
    ELSE {t \in timers : t.id # timeoutRef[1]}

\* the id setTimeout returns: one no pending timer has
FreeTimerIds(timers) == (1..MaxTimers) \ {t.id : t \in timers}

\* what calculateVisibilityAtPoint resolves to for the point under a pixel
VisibilityDataAt(pixel) == [point |-> pixel]

\* handleMouseMove(e)
HandleMouseMove ==
    /\ \E currentPixel \in Pixels :
          IF hasMoved(tooltip.currentPixelRef, currentPixel)
          THEN LET cleared == clearTimeout(tooltip.timers, tooltip.timeoutRef)
               IN /\ FreeTimerIds(cleared) # {}
                  /\ LET id == CHOOSE i \in FreeTimerIds(cleared) :
                                  \A j \in FreeTimerIds(cleared) : i <= j
                     IN tooltip' = [tooltip EXCEPT
                            !.mouseInside = TRUE,
                            !.currentPixelRef = <<currentPixel>>,
                            !.tooltipVisibleRef = FALSE,
                            !.tooltipVisible =
                                IF tooltip.tooltipVisibleRef THEN FALSE
                                ELSE tooltip.tooltipVisible,
                            !.visibilityData =
                                IF tooltip.tooltipVisibleRef THEN <<>>
                                ELSE tooltip.visibilityData,
                            !.timers = cleared \cup
                                {[id |-> id, pixel |-> currentPixel,
                                  elapsed |-> 0]},
                            !.timeoutRef = <<id>>]
          ELSE tooltip' = [tooltip EXCEPT !.mouseInside = TRUE]
    /\ UNCHANGED <<engineVars, atmos, service, yallop, host, crescent, grid,
                   bulk>>

\* handleMouseLeave()
HandleMouseLeave ==
    /\ tooltip.mouseInside
    /\ tooltip' = [tooltip EXCEPT
           !.mouseInside = FALSE,
           !.currentPixelRef = <<>>,
           !.tooltipVisibleRef = FALSE,
           !.timers = clearTimeout(tooltip.timers, tooltip.timeoutRef),
           !.tooltipVisible = FALSE,
           !.visibilityData = <<>>]
    /\ UNCHANGED <<engineVars, atmos, service, yallop, host, crescent, grid,
                   bulk>>

\* 500 ms pass
TooltipTick ==
    /\ \E t \in tooltip.timers : t.elapsed < HoverDelay
    /\ tooltip' = [tooltip EXCEPT
           !.timers = {[t EXCEPT !.elapsed = Min(HoverDelay, t.elapsed + TickMs)] :
                          t \in tooltip.timers}]
    /\ UNCHANGED <<engineVars, atmos, service, yallop, host, crescent, grid,
                   bulk>>

\* the callback passed to setTimeout runs (lines 249-264)
TimeoutFires ==
    /\ Cardinality(tooltip.requests) < MaxRequests
    /\ \E t \in tooltip.timers :
          /\ t.elapsed >= HoverDelay
          /\ tooltip' = [tooltip EXCEPT
                 !.timers = tooltip.timers \ {t},
                 !.tooltipVisibleRef = TRUE,
                 !.tooltipVisible = TRUE,
                 !.tooltipPosition = t.pixel,
                 !.requests = tooltip.requests \cup {t.pixel}]
    /\ UNCHANGED <<engineVars, atmos, service, yallop, host, crescent, grid,
                   bulk>>

\* a calculateVisibilityAtPoint promise resolves (lines 259-263)
VisibilityDataArrives ==
    /\ \E point \in tooltip.requests :
          tooltip' = [tooltip EXCEPT
              !.requests = tooltip.requests \ {point},
              !.visibilityData =
                  IF tooltip.tooltipVisibleRef
                  THEN <<VisibilityDataAt(point)>>
                  ELSE tooltip.visibilityData]
    /\ UNCHANGED <<engineVars, atmos, service, yallop, host, crescent, grid,
                   bulk>>

NextTooltip ==
    \/ HandleMouseMove
    \/ HandleMouseLeave
    \/ TooltipTick
    \/ TimeoutFires
    \/ VisibilityDataArrives

SpecTooltip == Init /\ [][NextTooltip]_vars

\* C28: the data shown in a visible tooltip was computed for the point at
\* which that tooltip was opened
C28_DataBelongsToOpenTooltip ==
    (tooltip.tooltipVisible /\ tooltip.visibilityData # <<>>)
        => tooltip.visibilityData[1].point = tooltip.tooltipPosition

============================================================================
